---- MODULE Spec2Model ----
(***************************************************************************)
(* A model of the Valkey-rust key-value server: the WAL record codec and   *)
(* its streaming decoder, segment recovery with lock files, the staging    *)
(* and canonical tables, and the request handlers with the background      *)
(* writer (src/src/wal_manager.rs, handlers.rs, db_connection.rs, main.rs).*)
(***************************************************************************)
EXTENDS Integers, Sequences, FiniteSets, TLC

(***************************************************************************)
(* Bounds of the model.                                                    *)
(***************************************************************************)
\* Longest sequence of records fed to a decoder.
MaxRecs == 2
\* Largest chunk (besides "all that is left") handed to one feed() call.
MaxChunk == 2

(***************************************************************************)
(* Bytes.  A byte is a number in 0..255; a buffer is a sequence of bytes.  *)
(***************************************************************************)
OpS == 83
OpD == 68
NL == 10

Min(a, b) == IF a < b THEN a ELSE b

RECURSIVE ToLeBytes(_, _)
\* n.to_le_bytes() of a w-byte unsigned integer: the w low base-256 digits.
ToLeBytes(n, w) ==
  IF w = 0 THEN << >> ELSE << n % 256 >> \o ToLeBytes(n \div 256, w - 1)

RECURSIVE FromLeBytes(_)
\* uN::from_le_bytes(bs)
FromLeBytes(bs) ==
  IF bs = << >> THEN 0 ELSE bs[1] + 256 * FromLeBytes(Tail(bs))

RECURSIVE Utf8Lossy(_)
\* String::from_utf8_lossy(bs).to_string(), a string being its UTF-8 bytes.
\* ASCII bytes are kept; a byte that no UTF-8 text contains (the model uses
\* 255 only) becomes U+FFFD, i.e. the bytes EF BF BD.
Utf8Lossy(bs) ==
  IF bs = << >> THEN << >>
  ELSE (IF bs[1] < 128 THEN << bs[1] >> ELSE << 239, 191, 189 >>)
         \o Utf8Lossy(Tail(bs))

(***************************************************************************)
(* WALOperation and the encoder of WAL::set / WAL::delete.                 *)
(***************************************************************************)
SetOp(t, k, v) == [kind |-> "Set", timestamp |-> t, key |-> k, value |-> v]
DeleteOp(t, k) == [kind |-> "Delete", timestamp |-> t, key |-> k]

\* A variant that writes the timestamp as a 64-bit integer.
EncodeSetU64(t, key, val) ==
  << OpS >> \o ToLeBytes(t, 8) \o ToLeBytes(Len(key), 4) \o key
            \o ToLeBytes(Len(val), 4) \o val \o << NL >>

EncodeSet(t, key, val) ==
  << OpS >> \o ToLeBytes(t, 16) \o ToLeBytes(Len(key), 4) \o key
            \o ToLeBytes(Len(val), 4) \o val \o << NL >>

EncodeDelete(t, key) ==
  << OpD >> \o ToLeBytes(t, 16) \o ToLeBytes(Len(key), 4) \o key \o << NL >>

Encode(r) ==
  IF r.kind = "Set" THEN EncodeSet(r.timestamp, r.key, r.value)
  ELSE EncodeDelete(r.timestamp, r.key)

RECURSIVE EncodeAll(_)
EncodeAll(rs) ==
  IF rs = << >> THEN << >> ELSE Encode(rs[1]) \o EncodeAll(Tail(rs))

(***************************************************************************)
(* WALDecoder.  decode_set / decode_delete start right after the opcode    *)
(* and return either the operation and the cursor behind it, or            *)
(* Err("incomplete") with the cursor where the decoding stopped.           *)
(***************************************************************************)
DecErr(off) == [ok |-> FALSE, err |-> "incomplete", offset |-> off]
DecOk(op, off) == [ok |-> TRUE, op |-> op, offset |-> off]

\* "Skip newline if present"
SkipNewline(buf, off) ==
  IF off < Len(buf) /\ buf[off + 1] = NL THEN off + 1 ELSE off

\* A variant of decode_set that takes the bytes that are there for a value
\* that is cut short.
decode_set_short(buf, off) ==
  IF off + 16 > Len(buf) THEN DecErr(off)
  ELSE
    LET timestamp == FromLeBytes(SubSeq(buf, off + 1, off + 16))
        o1 == off + 16
    IN IF o1 + 4 > Len(buf) THEN DecErr(o1)
       ELSE
         LET key_len == FromLeBytes(SubSeq(buf, o1 + 1, o1 + 4))
             o2 == o1 + 4
         IN IF o2 + key_len > Len(buf) THEN DecErr(o2)
            ELSE
              LET key == Utf8Lossy(SubSeq(buf, o2 + 1, o2 + key_len))
                  o3 == o2 + key_len
              IN IF o3 + 4 > Len(buf) THEN DecErr(o3)
                 ELSE
                   LET val_len == FromLeBytes(SubSeq(buf, o3 + 1, o3 + 4))
                       o4 == o3 + 4
                       o5 == Min(o4 + val_len, Len(buf))
                   IN DecOk(SetOp(timestamp, key,
                                  Utf8Lossy(SubSeq(buf, o4 + 1, o5))),
                            SkipNewline(buf, o5))

decode_set(buf, off) ==
  IF off + 16 > Len(buf) THEN DecErr(off)
  ELSE
    LET timestamp == FromLeBytes(SubSeq(buf, off + 1, off + 16))
        o1 == off + 16
    IN IF o1 + 4 > Len(buf) THEN DecErr(o1)
       ELSE
         LET key_len == FromLeBytes(SubSeq(buf, o1 + 1, o1 + 4))
             o2 == o1 + 4
         IN IF o2 + key_len > Len(buf) THEN DecErr(o2)
            ELSE
              LET key == Utf8Lossy(SubSeq(buf, o2 + 1, o2 + key_len))
                  o3 == o2 + key_len
              IN IF o3 + 4 > Len(buf) THEN DecErr(o3)
                 ELSE
                   LET val_len == FromLeBytes(SubSeq(buf, o3 + 1, o3 + 4))
                       o4 == o3 + 4
                   IN IF o4 + val_len > Len(buf) THEN DecErr(o4)
                      ELSE
                        LET value == Utf8Lossy(SubSeq(buf, o4 + 1, o4 + val_len))
                            o5 == o4 + val_len
                        IN DecOk(SetOp(timestamp, key, value),
                                 SkipNewline(buf, o5))

decode_delete(buf, off) ==
  IF off + 16 > Len(buf) THEN DecErr(off)
  ELSE
    LET timestamp == FromLeBytes(SubSeq(buf, off + 1, off + 16))
        o1 == off + 16
    IN IF o1 + 4 > Len(buf) THEN DecErr(o1)
       ELSE
         LET key_len == FromLeBytes(SubSeq(buf, o1 + 1, o1 + 4))
             o2 == o1 + 4
         IN IF o2 + key_len > Len(buf) THEN DecErr(o2)
            ELSE
              LET key == Utf8Lossy(SubSeq(buf, o2 + 1, o2 + key_len))
                  o3 == o2 + key_len
              IN DecOk(DeleteOp(timestamp, key), SkipNewline(buf, o3))

\* The results of next_operation(), each with the cursor it leaves.
RNone(off) == [res |-> "None", offset |-> off]
ROk(op, off) == [res |-> "Ok", op |-> op, offset |-> off]
RErr(e, off) == [res |-> "Err", err |-> e, offset |-> off]

\* A variant that leaves the cursor where the failed decoding stopped.
RewindOnErrorNone(start_offset, r) == r.offset

\* The cursor next_operation() leaves when decode_set / decode_delete
\* failed: "Rewind on error".
RewindOnError(start_offset, r) == start_offset

\* The arm of next_operation() for a byte that is no opcode: rewind and
\* return None ("Unknown operation, might need more data").
UnknownOpcode(start_offset) == RNone(start_offset)

\* match result { Ok(operation) => ..., Err(e) => ... }
MatchResult(start_offset, r) ==
  IF r.ok THEN ROk(r.op, r.offset)
  ELSE IF r.err = "incomplete" THEN RNone(RewindOnError(start_offset, r))
       ELSE RErr(r.err, RewindOnError(start_offset, r))

RECURSIVE next_operation(_, _)
next_operation(buf, off) ==
  IF off >= Len(buf) THEN RNone(off)
  ELSE
    LET start_offset == off
        op == buf[off + 1]
    IN CASE op = OpS -> MatchResult(start_offset, decode_set(buf, off + 1))
         [] op = OpD -> MatchResult(start_offset, decode_delete(buf, off + 1))
         [] op = NL -> next_operation(buf, off + 1)
         [] OTHER -> UnknownOpcode(start_offset)

\* A variant that clears the whole buffer.
compactClear(buf, off) ==
  IF off > 0 THEN [buffer |-> << >>, offset |-> 0]
  ELSE [buffer |-> buf, offset |-> off]

\* compact(): the buffer and cursor it leaves.
compact(buf, off) ==
  IF off > 0 THEN [buffer |-> SubSeq(buf, off + 1, Len(buf)), offset |-> 0]
  ELSE [buffer |-> buf, offset |-> off]

RECURSIVE Drain(_, _, _)
\* while let Some(result) = decoder.next_operation() { ... } of recover_file:
\* the operations decoded (an Err is logged and the loop goes on) and the
\* cursor when next_operation() returns None.  `fuel` bounds the model's
\* unrolling of a loop that a repeated Err would never leave.
Drain(buf, off, fuel) ==
  LET r == next_operation(buf, off)
  IN IF r.res = "None" \/ fuel = 0 THEN [ops |-> << >>, offset |-> r.offset]
     ELSE LET rest == Drain(buf, r.offset, fuel - 1)
          IN [ops |-> (IF r.res = "Ok" THEN << r.op >> ELSE << >>) \o rest.ops,
              offset |-> rest.offset]

\* One decoder fed the whole of `bytes` in one feed() call and drained.
DecodeAtOnce(bytes) == Drain(bytes, 0, Len(bytes) + 1).ops

(***************************************************************************)
(* The persistent store.  A table is a function from its primary keys to   *)
(* its rows: wal_sync rows are [time, value, operation] with a nullable    *)
(* value, kv_store rows are the values.                                    *)
(***************************************************************************)
EmptyTable == [k \in {} |-> << >>]
Put(table, k, row) ==
  [x \in DOMAIN table \cup { k } |-> IF x = k THEN row ELSE table[x]]
Without(table, ks) == [x \in DOMAIN table \ ks |-> table[x]]

\* A nullable text column: NULL, or the text.
Null == << >>
NotNull(v) == << v >>

BATCH_SIZE == 20000
CHUNK_SIZE == 8192

\* ... DO UPDATE ... WHERE wal_sync.time < EXCLUDED.time
StagingGuard(old_time, new_time) == old_time < new_time

\* One proposed row of a multi-row INSERT INTO wal_sync ... ON CONFLICT (key)
\* DO UPDATE.  st = [ok, table, touched]: `touched` are the keys the statement
\* has inserted or updated so far.  PostgreSQL lets one INSERT ... ON CONFLICT
\* DO UPDATE statement affect a row once only: a proposed row whose key the
\* same statement has already inserted or updated fails the statement
\* ("ON CONFLICT DO UPDATE command cannot affect row a second time").
\* `row` is the proposed row; an update keeps the old value when `keep_value`
\* (the DELETE upsert sets time and operation only).
UpsertRow(st, key, row, keep_value) ==
  IF ~st.ok THEN st
  ELSE IF key \notin DOMAIN st.table
    THEN [ok |-> TRUE, table |-> Put(st.table, key, row),
          touched |-> st.touched \cup { key }]
  ELSE IF key \in st.touched
    THEN [st EXCEPT !.ok = FALSE]
  ELSE IF StagingGuard(st.table[key].time, row.time)
    THEN [ok |-> TRUE,
          table |-> Put(st.table, key,
                        IF keep_value
                        THEN [row EXCEPT !.value = st.table[key].value]
                        ELSE row),
          touched |-> st.touched \cup { key }]
  ELSE st

RECURSIVE UpsertSetRows(_, _)
UpsertSetRows(st, batch) ==
  IF batch = << >> THEN st
  ELSE UpsertSetRows(
         UpsertRow(st, batch[1][1],
                   [time |-> batch[1][2], value |-> NotNull(batch[1][3]),
                    operation |-> "SET"], FALSE),
         Tail(batch))

RECURSIVE UpsertDeleteRows(_, _)
UpsertDeleteRows(st, batch) ==
  IF batch = << >> THEN st
  ELSE UpsertDeleteRows(
         UpsertRow(st, batch[1][1],
                   [time |-> batch[1][2], value |-> Null,
                    operation |-> "DELETE"], TRUE),
         Tail(batch))

\* execute_set_batch(tx, batch) on the transaction's view of wal_sync:
\* [ok, table].  batch: <<key, timestamp, value>> tuples.
execute_set_batch(table, batch) ==
  IF batch = << >> THEN [ok |-> TRUE, table |-> table]
  ELSE LET st == UpsertSetRows([ok |-> TRUE, table |-> table, touched |-> {}],
                               batch)
       IN [ok |-> st.ok, table |-> st.table]

\* execute_delete_batch(tx, batch).  batch: <<key, timestamp>> tuples.
execute_delete_batch(table, batch) ==
  IF batch = << >> THEN [ok |-> TRUE, table |-> table]
  ELSE LET st == UpsertDeleteRows([ok |-> TRUE, table |-> table, touched |-> {}],
                                  batch)
       IN [ok |-> st.ok, table |-> st.table]

\* Both batches, the SETs first; the first failure ends it (the `?`).
ExecuteBatches(table, set_batch, delete_batch) ==
  LET r1 == execute_set_batch(table, set_batch)
  IN IF ~r1.ok THEN r1 ELSE execute_delete_batch(r1.table, delete_batch)

RECURSIVE PushOps(_, _)
\* The body of recover_file's decode loop for the operations `todo_ops`:
\* push each onto its batch and flush both batches when either has
\* BATCH_SIZE entries.  st = [ok, table, set_batch, delete_batch].
PushOps(st, todo_ops) ==
  IF todo_ops = << >> \/ ~st.ok THEN st
  ELSE
    LET op == todo_ops[1]
        sb == IF op.kind = "Set"
              THEN Append(st.set_batch, << op.key, op.timestamp, op.value >>)
              ELSE st.set_batch
        db == IF op.kind = "Delete"
              THEN Append(st.delete_batch, << op.key, op.timestamp >>)
              ELSE st.delete_batch
        flushed == ExecuteBatches(st.table, sb, db)
        st1 == IF Len(sb) >= BATCH_SIZE \/ Len(db) >= BATCH_SIZE
               THEN [ok |-> flushed.ok, table |-> flushed.table,
                     set_batch |-> << >>, delete_batch |-> << >>]
               ELSE [st EXCEPT !.set_batch = sb, !.delete_batch = db]
    IN PushOps(st1, Tail(todo_ops))

RECURSIVE ReadLoop(_, _, _)
\* recover_file's read loop over the bytes of the segment: read a chunk of
\* at most CHUNK_SIZE bytes, feed it, drain next_operation(), compact; stop
\* at end of file.  The operations decoded, in order.
ReadLoop(rest, buf, off) ==
  IF rest = << >> THEN << >>
  ELSE LET n == Min(CHUNK_SIZE, Len(rest))
           fed == buf \o SubSeq(rest, 1, n)
           d == Drain(fed, off, Len(fed) + 1)
           c == compact(fed, d.offset)
       IN d.ops \o ReadLoop(SubSeq(rest, n + 1, Len(rest)), c.buffer, c.offset)

\* The transaction of recover_file over the operations decoded from a
\* segment, on wal_sync as committed: [ok, table]; ok = FALSE stands for the
\* Err that a failed statement returns (the transaction is dropped and rolls
\* back).
StageOps(table, todo_ops) ==
  LET st == PushOps([ok |-> TRUE, table |-> table,
                     set_batch |-> << >>, delete_batch |-> << >>],
                    todo_ops)
  IN IF ~st.ok THEN [ok |-> FALSE, table |-> table]
     ELSE LET r == ExecuteBatches(st.table, st.set_batch, st.delete_batch)
          IN IF r.ok THEN r ELSE [ok |-> FALSE, table |-> table]

\* A variant of sync_db_tables whose INSERT leaves a row that is there
\* already as it is (ON CONFLICT DO NOTHING).
sync_db_tables_insert_only(kv, staging) ==
  LET sets == { k \in DOMAIN staging : staging[k].operation = "SET" }
      dels == { k \in DOMAIN staging : staging[k].operation = "DELETE" }
      upserted == [k \in DOMAIN kv \cup sets |->
                     IF k \in DOMAIN kv THEN kv[k] ELSE staging[k].value[1]]
  IN [kv |-> Without(upserted, dels), staging |-> EmptyTable]

\* sync_db_tables(): the three statements and the commit: [kv, staging].
sync_db_tables(kv, staging) ==
  LET sets == { k \in DOMAIN staging : staging[k].operation = "SET" }
      dels == { k \in DOMAIN staging : staging[k].operation = "DELETE" }
      upserted == [k \in DOMAIN kv \cup sets |->
                     IF k \in sets THEN staging[k].value[1] ELSE kv[k]]
  IN [kv |-> Without(upserted, dels), staging |-> EmptyTable]

(***************************************************************************)
(* The log directory.  A file name is <<id, depth>>: the segment           *)
(* wal_<id>.log followed by `depth` ".lock" suffixes.  A file has its      *)
(* bytes, whether its modification time is more than                       *)
(* LOCK_STALE_TIMEOUT_SECS in the past, and (history) the process that     *)
(* created it.                                                             *)
(***************************************************************************)
Segment(id) == << id, 0 >>
LockFileOf(name) == << name[1], name[2] + 1 >>

\* a > b as file paths (compared as strings)
PathGreater(a, b) == a[1] > b[1] \/ (a[1] = b[1] /\ a[2] > b[2])

RECURSIVE SortDescending(_)
\* wals.sort_unstable_by(|a, b| b.cmp(a))
SortDescending(names) ==
  IF names = {} THEN << >>
  ELSE LET top == CHOOSE a \in names : \A b \in names \ { a } : PathGreater(a, b)
       IN << top >> \o SortDescending(names \ { top })

NewFile(bytes, p) == [bytes |-> bytes, stale |-> FALSE, owner |-> p]

(***************************************************************************)
(* The decoder as a state machine: a byte stream is fed in chunks to one   *)
(* WALDecoder, with next_operation() and compact() called in between.      *)
(***************************************************************************)
VARIABLES
  src,       \* the stream as built: [recs, junk, at] (history)
  stream,    \* bytes not yet fed
  buffer,    \* WALDecoder.buffer
  offset,    \* WALDecoder.offset
  dropped,   \* bytes drained by compact() so far (history)
  ops,       \* operations returned by next_operation() so far
  last,      \* the most recent next_operation() call since the last feed
  prev,      \* the result of the call before it, since the last feed
  early,     \* next_operation() was called before the whole stream was fed
  files,     \* the log directory: file name -> [bytes, stale, owner]
  wal_sync,  \* the staging table, as committed
  kv_store,  \* the canonical table, as committed
  procs,     \* the processes running over the directory and the store
  pc,        \* per process: where it is in main / recover / recover_file
  wals,      \* per process: recover()'s sorted list, from the current file on
  held,      \* per process: the operations decoded from the current file
  crashes,   \* process crashes so far (history)
  hist,      \* what the run started from and went through (history)
  cache,     \* AppState.cache, the in-memory map
  chan,      \* the channel from WAL::set / WAL::delete to the background writer
  rx,        \* the channel's receiver: "held" by the WAL, "taken" by the
             \* writer task, or "dropped"
  wbuf,      \* background_writer_impl's buffer
  pool,      \* WAL.pool: the segment each slot appends to
  clock,     \* the greatest system time read so far
  tasks,     \* the request handlers in flight
  obs,       \* what the clients saw (history)
  rwlock,    \* per pool slot, the RwLock of its WALFile: the task holding the
             \* write guard (0: free) and the tasks queued for it
  callers,   \* the tasks inside flush_buffer: where each is, and (history)
             \* the slots it found held
  calls,     \* the calls of start_background_writer(): where each is, and
             \* how many writer tasks were spawned
  lens       \* the writer loop by lengths: data.len() of the records in the
             \* channel, buffer.len(), the length of each flush_buffer write,
             \* and how many records were sent (history)

codecVars == << src, stream, buffer, offset, dropped, ops, last, prev, early >>
recVars ==
  << files, wal_sync, kv_store, procs, pc, wals, held, crashes, hist >>

srvVars == << cache, chan, rx, wbuf, pool, clock, tasks, obs >>

poolVars == << rwlock, callers >>

sizeVars == << lens >>

startVars == << calls >>

vars == << codecVars, recVars, srvVars, poolVars, sizeVars, startVars >>

\* The records of the streams: keys and values holding a newline and an
\* opcode byte, a timestamp whose low bytes are a newline and an 'S', an empty
\* value.
CodecKeys == { << 107 >>, << NL, OpS >> }
CodecTimes == { 1, 21258 }
CodecRecords ==
  { SetOp(1, << 107 >>, << >>), SetOp(21258, << NL, OpS >>, << OpD, NL >>) }
    \cup { DeleteOp(t, k) : t \in CodecTimes, k \in CodecKeys }

RECURSIVE SeqsUpTo(_, _)
\* The sequences over S of length at most n.
SeqsUpTo(S, n) ==
  IF n = 0 THEN { << >> }
  ELSE LET shorter == SeqsUpTo(S, n - 1)
       IN shorter \cup { Append(s, x) : s \in shorter, x \in S }

\* A byte that is no opcode, placed at a record boundary; NoJunk: none.
JunkBytes == { << 88 >> }
NoJunk == << >>

\* The bytes of a stream: the records' encodings, with the junk byte (if
\* any) after the first `at` records.
StreamBytes(s) ==
  EncodeAll(SubSeq(s.recs, 1, s.at)) \o s.junk
    \o EncodeAll(SubSeq(s.recs, s.at + 1, Len(s.recs)))

Sources ==
  { [recs |-> rs, junk |-> NoJunk, at |-> 0] : rs \in SeqsUpTo(CodecRecords, MaxRecs) \ { << >> } }
    \cup { [recs |-> rs, junk |-> j, at |-> a] :
             rs \in SeqsUpTo(CodecRecords, 1), j \in JunkBytes, a \in 0..1 }

NoCall == [res |-> "NoCall"]

MaxTasks == 2

\* A handler slot with no request in it.
IdleTask ==
  [at |-> "idle", kind |-> "", key |-> << >>, value |-> << >>, res |-> ""]

NoGet == [key |-> << >>, got |-> << >>, want |-> << >>]

\* A process that serves nothing: the state of a process before it listens.
SrvIdle ==
  /\ cache = EmptyTable
  /\ chan = << >>
  /\ rx = "held"
  /\ wbuf = << >>
  /\ pool = << >>
  /\ clock = 0
  /\ tasks = [t \in 1..MaxTasks |-> IdleTask]
  /\ obs = [acked |-> EmptyTable, writer |-> EmptyTable, lastGet |-> NoGet,
            atStop |-> << >>, serial |-> TRUE, strict |-> TRUE,
            stops |-> 0, requests |-> 0, sent |-> << >>,
            gone |-> {}, wrote |-> {}]

\* No pool: the locks of the slots are not followed.
PoolIdle ==
  /\ rwlock = << >>
  /\ callers = << >>

\* The writer loop by lengths is not followed.
NoLens == [chan |-> << >>, buffer |-> 0, writes |-> << >>, sent |-> 0]
SizeIdle == lens = NoLens

\* No call of start_background_writer() is followed.
StartIdle == calls = [at |-> << >>, writers |-> 0]

\* No process, an empty directory and an empty store.
RecIdle ==
  /\ files = EmptyTable
  /\ wal_sync = EmptyTable
  /\ kv_store = EmptyTable
  /\ procs = {}
  /\ pc = << >>
  /\ wals = << >>
  /\ held = << >>
  /\ crashes = 0
  /\ hist = << >>

CodecInit ==
  /\ RecIdle
  /\ SrvIdle
  /\ PoolIdle
  /\ SizeIdle
  /\ StartIdle
  /\ src \in { s \in Sources : s.at <= Len(s.recs) }
  /\ stream = StreamBytes(src)
  /\ buffer = << >>
  /\ offset = 0
  /\ dropped = 0
  /\ ops = << >>
  /\ last = NoCall
  /\ prev = "NoCall"
  /\ early = FALSE

\* decoder.feed(&data[..n])
Feed(n) ==
  /\ n >= 1
  /\ n <= Len(stream)
  /\ buffer' = buffer \o SubSeq(stream, 1, n)
  /\ stream' = SubSeq(stream, n + 1, Len(stream))
  /\ last' = NoCall
  /\ prev' = "NoCall"
  /\ UNCHANGED << src, offset, dropped, ops, early >>
  /\ UNCHANGED << recVars, srvVars, poolVars, sizeVars, startVars >>

DecFeed == \E n \in (1..MaxChunk) \cup { Len(stream) } : Feed(n)

\* decoder.next_operation().  A call that follows a None with nothing fed in
\* between is left out: it returns None again and changes nothing.
DecNext ==
  /\ last.res # "None"
  /\ LET r == next_operation(buffer, offset)
     IN /\ offset' = r.offset
        /\ ops' = IF r.res = "Ok" THEN Append(ops, r.op) ELSE ops
        /\ last' = [res |-> r.res, start |-> dropped + offset,
                    end |-> dropped + r.offset]
        /\ prev' = last.res
        /\ early' = (early \/ stream # << >>)
  /\ UNCHANGED << src, stream, buffer, dropped >>
  /\ UNCHANGED << recVars, srvVars, poolVars, sizeVars, startVars >>

\* decoder.compact()
DecCompact ==
  /\ offset > 0
  /\ LET c == compact(buffer, offset)
     IN /\ buffer' = c.buffer
        /\ offset' = c.offset
  /\ dropped' = dropped + offset
  /\ UNCHANGED << src, stream, ops, last, prev, early >>
  /\ UNCHANGED << recVars, srvVars, poolVars, sizeVars, startVars >>

CodecNext == DecFeed \/ DecNext \/ DecCompact

SpecCodec == CodecInit /\ [][CodecNext]_vars

(***************************************************************************)
(* Recovery: main's recover() and sync_db_tables() calls, one step per     *)
(* file-system or store operation, for one or two processes over one log   *)
(* directory and one store.                                                *)
(***************************************************************************)
MaxDirRecs == 3
MaxCrashes == 1
MaxFaults == 1

KeyA == << 97 >>
KeyB == << 98 >>

\* The records of the segments: a key written several times, with a DELETE
\* between the SETs' timestamps, and a second key.
SysRecords ==
  { SetOp(1, KeyA, << 49 >>), DeleteOp(2, KeyA), SetOp(3, KeyA, << 51 >>),
    SetOp(4, KeyA, << 52 >>), SetOp(1, KeyB, << 49 >>) }

Injective(rs) == \A i, j \in 1..Len(rs) : i # j => rs[i] # rs[j]

\* The directories a run starts from: up to MaxDirRecs records in two
\* segments (segs[i] are the records of segment i), or one segment of one
\* record for two processes, without a lock file, with a fresh one or with a
\* stale one left by a process that is gone.
DirRecords ==
  { ri \in { r \in SeqsUpTo(SysRecords, MaxDirRecs) : Injective(r) }
             \X (0..MaxDirRecs) : ri[2] <= Len(ri[1]) }

Kv0 == Put(EmptyTable, KeyA, << 48 >>)
LockStates == { "none", "fresh", "stale" }

\* One process: every directory without lock files, and the directories of at
\* most one record with a lock file on segment 1.
Starts ==
  { st \in { [procs |-> { 1 }, lock |-> l, kv |-> Kv0,
              segs |-> << SubSeq(ri[1], 1, ri[2]),
                          SubSeq(ri[1], ri[2] + 1, Len(ri[1])) >>] :
               ri \in DirRecords, l \in LockStates } :
      st.lock = "none" \/ Len(st.segs[1]) + Len(st.segs[2]) <= 1 }

\* Two processes: one segment of one record.
LockStarts ==
  { [procs |-> { 1, 2 }, lock |-> l, kv |-> EmptyTable,
     segs |-> << << r >> >>] :
      l \in LockStates, r \in { SetOp(1, KeyA, << 49 >>) } }

\* The record a truncated tail is cut from, and the lengths it is cut to: the
\* opcode alone, up to the timestamp, all but the value's last byte and the
\* newline, all but the newline.
TailRecord == SetOp(5, KeyB, << 53 >>)
TailCuts ==
  { 1, 17, Len(Encode(TailRecord)) - 2, Len(Encode(TailRecord)) - 1 }

\* One process on a directory whose segment 1 is damaged: after its first
\* `at` records come `bytes`, a proper prefix of TailRecord's encoding at the
\* end of the segment ("tail") or a byte that is no opcode at a record
\* boundary ("junk").
DamagedStarts ==
  { [procs |-> { 1 }, lock |-> "none", kv |-> Kv0,
     segs |-> << SubSeq(ri[1], 1, ri[2]), SubSeq(ri[1], ri[2] + 1, Len(ri[1])) >>,
     damage |-> d] :
      ri \in { x \in DirRecords : Len(x[1]) < MaxDirRecs },
      d \in { [kind |-> "tail", at |-> MaxDirRecs,
               bytes |-> SubSeq(Encode(TailRecord), 1, c)] : c \in TailCuts }
              \cup { [kind |-> "junk", at |-> a, bytes |-> j] :
                       a \in 0..(MaxDirRecs - 1), j \in JunkBytes } }

\* The bytes of segment i of a start.
SegmentBytes(st, i) ==
  IF "damage" \in DOMAIN st /\ i = 1
  THEN LET a == Min(st.damage.at, Len(st.segs[1]))
       IN EncodeAll(SubSeq(st.segs[1], 1, a)) \o st.damage.bytes
            \o EncodeAll(SubSeq(st.segs[1], a + 1, Len(st.segs[1])))
  ELSE EncodeAll(st.segs[i])

\* The files of a start: the segments, and the lock file of segment 1 if any.
StartFiles(st) ==
  LET segfiles == [n \in { Segment(i) : i \in 1..Len(st.segs) } |->
                     NewFile(SegmentBytes(st, n[1]), 0)]
  IN IF st.lock = "none" THEN segfiles
     ELSE Put(segfiles, LockFileOf(Segment(1)),
              [bytes |-> << >>, stale |-> (st.lock = "stale"), owner |-> 0])

\* Codec variables while no decoder is under test.
CodecIdle ==
  /\ src = [recs |-> << >>, junk |-> NoJunk, at |-> 0]
  /\ stream = << >>
  /\ buffer = << >>
  /\ offset = 0
  /\ dropped = 0
  /\ ops = << >>
  /\ last = NoCall
  /\ prev = "NoCall"
  /\ early = FALSE

\* A run from one of `starts`, each process at `at` in main.
\* The history of a run that starts from st.
Hist0(st) ==
  [start |-> st, crashAt |-> "none", committed |-> {}, redone |-> {}, aged |-> FALSE,
   failed |-> {}, once |-> EmptyTable, kvOnce |-> st.kv,
   faults |-> 0, late |-> FALSE, retained |-> {}]

InitAt(starts, at) ==
  /\ CodecIdle
  /\ SrvIdle
  /\ PoolIdle
  /\ SizeIdle
  /\ StartIdle
  /\ hist \in { Hist0(st) : st \in starts }
  /\ files = StartFiles(hist.start)
  /\ wal_sync = EmptyTable
  /\ kv_store = hist.start.kv
  /\ procs = hist.start.procs
  /\ pc = [p \in procs |-> at]
  /\ wals = [p \in procs |-> << >>]
  /\ held = [p \in procs |-> << >>]
  /\ crashes = 0

\* A run from main's call of recover().
InitFrom(starts) == InitAt(starts, "recover")

CurFile(p) == Head(wals[p])
CurLock(p) == LockFileOf(CurFile(p))

\* recover_file returned (Ok or Err): recover()'s loop goes to the next file,
\* or recover() returns Ok and main calls sync_db_tables().
FileDone(p) ==
  /\ wals' = [wals EXCEPT ![p] = Tail(@)]
  /\ pc' = [pc EXCEPT ![p] = IF Len(wals[p]) = 1 THEN "sync" ELSE "meta"]
  /\ held' = [held EXCEPT ![p] = << >>]

\* recover(): read_dir, every regular file of the directory, sorted
\* descending.
RecList(p) ==
  /\ pc[p] = "recover"
  /\ wals' = [wals EXCEPT ![p] = SortDescending(DOMAIN files)]
  /\ pc' = [pc EXCEPT ![p] = IF files = EmptyTable THEN "sync" ELSE "meta"]
  /\ UNCHANGED << files, wal_sync, kv_store, procs, held, crashes, hist >>
  /\ UNCHANGED << codecVars, srvVars, poolVars, sizeVars, startVars >>

\* try_acquire_walfile_lock: fs::metadata(lock_file) and the age test.
RecMeta(p) ==
  /\ pc[p] = "meta"
  /\ IF CurLock(p) \notin DOMAIN files
       THEN /\ pc' = [pc EXCEPT ![p] = "create"]
            /\ UNCHANGED << wals, held >>
     ELSE IF files[CurLock(p)].stale
       THEN /\ pc' = [pc EXCEPT ![p] = "unstale"]
            /\ UNCHANGED << wals, held >>
     ELSE FileDone(p)
  /\ UNCHANGED << files, wal_sync, kv_store, procs, crashes, hist >>
  /\ UNCHANGED << codecVars, srvVars, poolVars, sizeVars, startVars >>

\* try_acquire_walfile_lock: fs::remove_file(lock_file).await.ok()
RecUnstale(p) ==
  /\ pc[p] = "unstale"
  /\ files' = Without(files, { CurLock(p) })
  /\ pc' = [pc EXCEPT ![p] = "create"]
  /\ UNCHANGED << wal_sync, kv_store, procs, wals, held, crashes, hist >>
  /\ UNCHANGED << codecVars, srvVars, poolVars, sizeVars, startVars >>

\* try_acquire_walfile_lock: create_new(true).open(lock_file)
RecCreate(p) ==
  /\ pc[p] = "create"
  /\ IF CurLock(p) \in DOMAIN files
       THEN /\ FileDone(p)
            /\ UNCHANGED files
       ELSE /\ files' = Put(files, CurLock(p), NewFile(<< >>, p))
            /\ pc' = [pc EXCEPT ![p] = "open"]
            /\ UNCHANGED << wals, held >>
  /\ UNCHANGED << wal_sync, kv_store, procs, crashes, hist >>
  /\ UNCHANGED << codecVars, srvVars, poolVars, sizeVars, startVars >>

\* recover_file: open the file (a panic when it is gone) and read it to the
\* end.
RecOpen(p) ==
  /\ pc[p] = "open"
  /\ IF CurFile(p) \notin DOMAIN files
       THEN /\ pc' = [pc EXCEPT ![p] = "panicked"]
            /\ UNCHANGED held
       ELSE /\ held' = [held EXCEPT ![p] =
                         ReadLoop(files[CurFile(p)].bytes, << >>, 0)]
            /\ pc' = [pc EXCEPT ![p] = "commit"]
  /\ UNCHANGED << files, wal_sync, kv_store, procs, wals, crashes, hist >>
  /\ UNCHANGED << codecVars, srvVars, poolVars, sizeVars, startVars >>

\* recover_file: the heartbeat tick, touch_walfile_lock(): the lock file is
\* opened for writing and synced, nothing is written to it, and its
\* modification time stays what it was.
RecHeartbeat(p) ==
  /\ pc[p] = "commit"
  /\ UNCHANGED << files, wal_sync, kv_store, procs, pc, wals, held, crashes, hist >>
  /\ UNCHANGED << codecVars, srvVars, poolVars, sizeVars, startVars >>

\* recover_file: the statements of the transaction and tx.commit(); a failed
\* statement returns Err and the transaction rolls back.  hist.once follows
\* wal_sync but for the commits of a file committed before.
RecCommit(p) ==
  /\ pc[p] = "commit"
  /\ LET r == StageOps(wal_sync, held[p])
         again == CurFile(p) \in hist.committed
         o == StageOps(hist.once, held[p])
     IN IF r.ok
          THEN /\ wal_sync' = r.table
               /\ pc' = [pc EXCEPT ![p] = "rm_wal"]
               /\ hist' = [hist EXCEPT !.committed = @ \cup { CurFile(p) },
                                       !.redone = IF again THEN @ \cup { CurFile(p) }
                                                  ELSE @,
                                       !.once = IF again THEN @ ELSE o.table]
               /\ UNCHANGED << wals, held >>
          ELSE /\ FileDone(p)
               /\ hist' = [hist EXCEPT !.failed = @ \cup { CurFile(p) }]
               /\ UNCHANGED wal_sync
  /\ UNCHANGED << files, kv_store, procs, crashes >>
  /\ UNCHANGED << codecVars, srvVars, poolVars, sizeVars, startVars >>

\* recover_file: fs::remove_file(&wal_file)
RecRemoveWal(p) ==
  /\ pc[p] = "rm_wal"
  /\ IF CurFile(p) \in DOMAIN files
       THEN /\ files' = Without(files, { CurFile(p) })
            /\ pc' = [pc EXCEPT ![p] = "rm_lock"]
            /\ UNCHANGED << wals, held >>
       ELSE /\ FileDone(p)
            /\ UNCHANGED files
  /\ UNCHANGED << wal_sync, kv_store, procs, crashes, hist >>
  /\ UNCHANGED << codecVars, srvVars, poolVars, sizeVars, startVars >>

\* recover_file: fs::remove_file(&lock_file)
RecRemoveLock(p) ==
  /\ pc[p] = "rm_lock"
  /\ files' = Without(files, { CurLock(p) })
  /\ FileDone(p)
  /\ UNCHANGED << wal_sync, kv_store, procs, crashes, hist >>
  /\ UNCHANGED << codecVars, srvVars, poolVars, sizeVars, startVars >>

\* main: wal.sync_db_tables()
RecSync(p) ==
  /\ pc[p] = "sync"
  /\ LET r == sync_db_tables(kv_store, wal_sync)
         o == sync_db_tables(hist.kvOnce, hist.once)
     IN /\ kv_store' = r.kv
        /\ wal_sync' = r.staging
        /\ hist' = [hist EXCEPT !.kvOnce = o.kv, !.once = o.staging]
  /\ pc' = [pc EXCEPT ![p] = "synced"]
  /\ UNCHANGED << files, procs, wals, held, crashes >>
  /\ UNCHANGED << codecVars, srvVars, poolVars, sizeVars, startVars >>

\* The variant of Crash in which the staging table does not outlive the
\* process.
CrashLosingStaging(p) ==
  /\ pc[p] \notin { "recover", "synced", "panicked" }
  /\ crashes < MaxCrashes
  /\ crashes' = crashes + 1
  /\ wal_sync' = EmptyTable
  /\ pc' = [pc EXCEPT ![p] = "recover"]
  /\ wals' = [wals EXCEPT ![p] = << >>]
  /\ held' = [held EXCEPT ![p] = << >>]
  /\ hist' = [hist EXCEPT !.crashAt = pc[p]]
  /\ UNCHANGED << files, kv_store, procs >>
  /\ UNCHANGED << codecVars, srvVars, poolVars, sizeVars, startVars >>

\* The process is killed during recovery and started again: main runs from
\* its beginning with what the process left in the directory and the store.
Crash(p) ==
  /\ pc[p] \notin { "recover", "synced", "panicked" }
  /\ crashes < MaxCrashes
  /\ crashes' = crashes + 1
  /\ pc' = [pc EXCEPT ![p] = "recover"]
  /\ wals' = [wals EXCEPT ![p] = << >>]
  /\ held' = [held EXCEPT ![p] = << >>]
  /\ hist' = [hist EXCEPT !.crashAt = pc[p]]
  /\ UNCHANGED << files, wal_sync, kv_store, procs >>
  /\ UNCHANGED << codecVars, srvVars, poolVars, sizeVars, startVars >>

\* More than LOCK_STALE_TIMEOUT_SECS pass with no file of the directory
\* written.  (The age of a file is recorded for the files try_acquire_walfile_lock
\* can ask it of: those whose name ends in ".lock".)
TimePasses ==
  /\ \E n \in DOMAIN files : n[2] > 0 /\ ~files[n].stale
  /\ files' = [n \in DOMAIN files |->
                [files[n] EXCEPT !.stale = (n[2] > 0)]]
  /\ hist' = [hist EXCEPT !.aged = TRUE]
  /\ UNCHANGED << wal_sync, kv_store, procs, pc, wals, held, crashes >>
  /\ UNCHANGED << codecVars, srvVars, poolVars, sizeVars, startVars >>

\* One process, killed and started again at most MaxCrashes times.  RecUnstale
\* is no step of it: the lock file of a file comes before the file in the
\* list and is gone when the file's turn comes, unless this run left it, and
\* then the file's turn is over.
RecInit == InitFrom(Starts)
RecNext ==
  \/ \E p \in procs : RecList(p)
  \/ \E p \in procs : RecMeta(p)
  \/ \E p \in procs : RecCreate(p)
  \/ \E p \in procs : RecOpen(p)
  \/ \E p \in procs : RecHeartbeat(p)
  \/ \E p \in procs : RecCommit(p)
  \/ \E p \in procs : RecRemoveWal(p)
  \/ \E p \in procs : RecRemoveLock(p)
  \/ \E p \in procs : RecSync(p)
  \/ \E p \in procs : Crash(p)
SpecRecover == RecInit /\ [][RecNext]_vars

\* recover_file: a statement of the transaction or tx.commit() returns an
\* error of the store's (the connection, the server): `?` returns Err, the
\* transaction is dropped and rolls back.  hist.late: an error after the
\* process was started again.
RecCommitFails(p) ==
  /\ pc[p] = "commit"
  /\ hist.faults < MaxFaults
  /\ FileDone(p)
  /\ hist' = [hist EXCEPT !.failed = @ \cup { CurFile(p) },
                          !.faults = @ + 1,
                          !.late = @ \/ crashes > 0]
  /\ UNCHANGED << files, wal_sync, kv_store, procs, crashes >>
  /\ UNCHANGED << codecVars, srvVars, poolVars, sizeVars, startVars >>

\* The process, past recover() and sync_db_tables(), ends and is started
\* again: the next startup.  hist.retained: the segments whose transaction
\* failed and that are still in the directory.
Restart(p) ==
  /\ pc[p] = "synced"
  /\ crashes < MaxCrashes
  /\ crashes' = crashes + 1
  /\ pc' = [pc EXCEPT ![p] = "recover"]
  /\ wals' = [wals EXCEPT ![p] = << >>]
  /\ held' = [held EXCEPT ![p] = << >>]
  /\ hist' = [hist EXCEPT !.crashAt = "synced",
                          !.retained = { n \in hist.failed \cap DOMAIN files :
                                          n[2] = 0 }]
  /\ UNCHANGED << files, wal_sync, kv_store, procs >>
  /\ UNCHANGED << codecVars, srvVars, poolVars, sizeVars, startVars >>

\* One process over a store that may fail, started a second time.
RetryStarts ==
  { st \in Starts : st.lock = "none"
                     /\ Len(st.segs[1]) + Len(st.segs[2]) < MaxDirRecs }
RetryInit == InitFrom(RetryStarts)
RetryNext ==
  \/ RecNext
  \/ \E p \in procs : RecCommitFails(p)
  \/ \E p \in procs : Restart(p)
SpecRetry == RetryInit /\ [][RetryNext]_vars

\* One process over a directory with a damaged segment.
DamagedInit == InitFrom(DamagedStarts)
SpecDamaged == DamagedInit /\ [][RecNext]_vars

\* One process on a directory with one segment of one or two records and the
\* lock file of the segment, left by a process that is gone.
LockedStarts ==
  { [procs |-> { 1 }, lock |-> l, kv |-> Kv0, segs |-> << r, << >> >>] :
      l \in LockStates \ { "none" },
      r \in { x \in SeqsUpTo(SysRecords, 2) : x # << >> /\ Injective(x) } }

LockedInit == InitFrom(LockedStarts)
SpecLocked == LockedInit /\ [][RecNext]_vars

\* Two processes over one directory and one store, neither killed.
LocksInit == InitFrom(LockStarts)
LocksNext ==
  \/ \E p \in procs : RecList(p)
  \/ \E p \in procs : RecMeta(p)
  \/ \E p \in procs : RecUnstale(p)
  \/ \E p \in procs : RecCreate(p)
  \/ \E p \in procs : RecOpen(p)
  \/ \E p \in procs : RecHeartbeat(p)
  \/ \E p \in procs : RecCommit(p)
  \/ \E p \in procs : RecRemoveWal(p)
  \/ \E p \in procs : RecRemoveLock(p)
  \/ \E p \in procs : RecSync(p)
  \/ TimePasses
SpecLocks == LocksInit /\ [][LocksNext]_vars

\* Two processes inside recover_file() for the same segment, each about to
\* call try_acquire_walfile_lock() on its lock path; the lock file is
\* absent, fresh or stale.
AcquireInit ==
  /\ CodecIdle
  /\ SrvIdle
  /\ PoolIdle
  /\ SizeIdle
  /\ StartIdle
  /\ hist \in { Hist0(st) : st \in LockStarts }
  /\ files = StartFiles(hist.start)
  /\ wal_sync = EmptyTable
  /\ kv_store = hist.start.kv
  /\ procs = hist.start.procs
  /\ pc = [p \in procs |-> "meta"]
  /\ wals = [p \in procs |-> << Segment(1) >>]
  /\ held = [p \in procs |-> << >>]
  /\ crashes = 0
AcquireNext ==
  \/ \E p \in procs : RecMeta(p)
  \/ \E p \in procs : RecUnstale(p)
  \/ \E p \in procs : RecCreate(p)
  \/ \E p \in procs : RecOpen(p)
  \/ \E p \in procs : RecHeartbeat(p)
  \/ \E p \in procs : RecCommit(p)
  \/ \E p \in procs : RecRemoveWal(p)
  \/ \E p \in procs : RecRemoveLock(p)
  \/ \E p \in procs : RecSync(p)
SpecAcquire == AcquireInit /\ [][AcquireNext]_vars

(***************************************************************************)
(* The server: one process from main's start through recovery to serving   *)
(* requests, the background writer, and the process killed and started     *)
(* again on the same directory and store.                                  *)
(***************************************************************************)
MaxOps == 2
MaxStops == 1
wal_pool_size == 2
FLUSH_THRESHOLD == 65536

\* The requests of the clients.
Requests ==
  { [kind |-> "SET", key |-> KeyA, value |-> << 49 >>],
    [kind |-> "SET", key |-> KeyA, value |-> << 50 >>],
    [kind |-> "SET", key |-> KeyB, value |-> << 49 >>],
    [kind |-> "DELETE", key |-> KeyA, value |-> << >>],
    [kind |-> "GET", key |-> KeyA, value |-> << >>] }

\* The deployment the server starts on: an empty log directory, kv_store
\* holding one row, config.wal_pool_size from 1 to its default.
SrvStarts ==
  { [procs |-> { 1 }, lock |-> "none", kv |-> Kv0, segs |-> << >>,
     pool_size |-> n] : n \in 1..wal_pool_size }

\* initialize_pool(config.wal_pool_size): get_file() per slot, a segment named
\* by the time it is created at, opened with append and create.
BootInitPool(p) ==
  /\ pc[p] = "synced"
  /\ LET new == { Segment(clock + i) : i \in 1..hist.start.pool_size }
     IN files' = [n \in DOMAIN files \cup new |->
                    IF n \in DOMAIN files THEN files[n] ELSE NewFile(<< >>, p)]
  /\ pool' = [i \in 1..hist.start.pool_size |-> Segment(clock + i)]
  /\ clock' = clock + hist.start.pool_size
  /\ pc' = [pc EXCEPT ![p] = "load"]
  /\ UNCHANGED << wal_sync, kv_store, procs, wals, held, crashes, hist >>
  /\ UNCHANGED << cache, chan, wbuf, tasks, obs >>
  /\ UNCHANGED << codecVars, poolVars, sizeVars, startVars >>
  /\ UNCHANGED rx

\* load_kvstore_inmemory(&cache, &pool): every row of kv_store into the map
\* created empty at the start of main.
BootLoad(p) ==
  /\ pc[p] = "load"
  /\ cache' = [k \in DOMAIN cache \cup DOMAIN kv_store |->
                 IF k \in DOMAIN kv_store THEN kv_store[k] ELSE cache[k]]
  /\ pc' = [pc EXCEPT ![p] = "start_writer"]
  /\ UNCHANGED << files, wal_sync, kv_store, procs, wals, held, crashes, hist >>
  /\ UNCHANGED << chan, wbuf, pool, clock, tasks, obs >>
  /\ UNCHANGED << codecVars, poolVars, sizeVars, startVars >>
  /\ UNCHANGED rx

\* wal.clone().start_background_writer(): the receiver is taken out of the
\* WAL and moved into the spawned writer task.
BootStartWriter(p) ==
  /\ pc[p] = "start_writer"
  /\ pc' = [pc EXCEPT ![p] = "listen"]
  /\ rx' = "taken"
  /\ UNCHANGED << files, wal_sync, kv_store, procs, wals, held, crashes, hist >>
  /\ UNCHANGED << cache, chan, wbuf, pool, clock, tasks, obs >>
  /\ UNCHANGED << codecVars, poolVars, sizeVars, startVars >>

\* TcpListener::bind and axum::serve
BootListen(p) ==
  /\ pc[p] = "listen"
  /\ pc' = [pc EXCEPT ![p] = "serving"]
  /\ UNCHANGED << files, wal_sync, kv_store, procs, wals, held, crashes, hist >>
  /\ UNCHANGED srvVars
  /\ UNCHANGED << codecVars, poolVars, sizeVars, startVars >>

Serving == \E p \in procs : pc[p] = "serving"
WriterRuns == \E p \in procs : pc[p] \in { "listen", "serving" }
Busy == { t \in 1..MaxTasks : tasks[t].at # "idle" }

\* A request arrives and its handler starts (in the first free slot).
Begin(req) ==
  /\ Serving
  /\ obs.requests < MaxOps
  /\ Busy # 1..MaxTasks
  /\ LET t == CHOOSE x \in (1..MaxTasks) \ Busy :
                \A y \in (1..MaxTasks) \ Busy : x <= y
     IN tasks' = [tasks EXCEPT ![t] = [at |-> "start", kind |-> req.kind,
                                      key |-> req.key, value |-> req.value,
                                      res |-> ""]]
  /\ obs' = [obs EXCEPT !.requests = @ + 1,
                        !.serial = @ /\ Busy = {}]
  /\ UNCHANGED << cache, chan, wbuf, pool, clock >>
  /\ UNCHANGED << recVars, codecVars, poolVars, sizeVars, startVars >>
  /\ UNCHANGED rx

\* The system time a call reads: not before any time read so far.
Now == { t \in { clock, clock + 1 } : t >= 1 }

\* A variant of SetSend that inserts into the map when tx.send has failed.
SetSendThenInsert(t) ==
  /\ tasks[t].kind = "SET" /\ tasks[t].at = "start"
  /\ \E ts \in Now :
       /\ clock' = ts
       /\ IF rx = "dropped"
            THEN /\ tasks' = [tasks EXCEPT ![t].at = "reply", ![t].res = "ERROR"]
                 /\ obs' = [obs EXCEPT !.strict = @ /\ ts > clock]
                 /\ cache' = Put(cache, tasks[t].key, tasks[t].value)
                 /\ UNCHANGED chan
            ELSE /\ chan' = Append(chan, EncodeSet(ts, tasks[t].key, tasks[t].value))
                 /\ tasks' = [tasks EXCEPT ![t].at = "insert"]
                 /\ obs' = [obs EXCEPT !.strict = @ /\ ts > clock,
                                       !.sent = Append(@, SetOp(ts, tasks[t].key,
                                                                tasks[t].value)),
                                       !.wrote = @ \cup { << tasks[t].key,
                                                             tasks[t].value >> }]
                 /\ UNCHANGED cache
  /\ UNCHANGED << wbuf, pool >>
  /\ UNCHANGED << recVars, codecVars, poolVars, sizeVars, startVars >>
  /\ UNCHANGED rx

\* set_key: state.wal.set(&key, &payload.value): the record, stamped with
\* the system time, goes into the channel; tx.send fails when the receiver
\* is gone, and the handler returns INTERNAL_SERVER_ERROR.
SetSend(t) ==
  /\ tasks[t].kind = "SET" /\ tasks[t].at = "start"
  /\ \E ts \in Now :
       /\ clock' = ts
       /\ IF rx = "dropped"
            THEN /\ tasks' = [tasks EXCEPT ![t].at = "reply", ![t].res = "ERROR"]
                 /\ obs' = [obs EXCEPT !.strict = @ /\ ts > clock]
                 /\ UNCHANGED chan
            ELSE /\ chan' = Append(chan, EncodeSet(ts, tasks[t].key, tasks[t].value))
                 /\ tasks' = [tasks EXCEPT ![t].at = "insert"]
                 /\ obs' = [obs EXCEPT !.strict = @ /\ ts > clock,
                                       !.sent = Append(@, SetOp(ts, tasks[t].key,
                                                                tasks[t].value)),
                                       !.wrote = @ \cup { << tasks[t].key,
                                                             tasks[t].value >> }]
  /\ UNCHANGED << cache, wbuf, pool >>
  /\ UNCHANGED << recVars, codecVars, poolVars, sizeVars, startVars >>
  /\ UNCHANGED rx

\* A variant of SetInsert that leaves the map alone.
SetInsertNothing(t) ==
  /\ tasks[t].kind = "SET" /\ tasks[t].at = "insert"
  /\ tasks' = [tasks EXCEPT ![t].at = "reply", ![t].res = "OK"]
  /\ obs' = [obs EXCEPT !.writer = Put(@, tasks[t].key, t),
                        !.acked = Without(@, { tasks[t].key }),
                        !.gone = @ \ { tasks[t].key }]
  /\ UNCHANGED << cache, chan, wbuf, pool, clock >>
  /\ UNCHANGED << recVars, codecVars, poolVars, sizeVars, startVars >>
  /\ UNCHANGED rx

\* A variant of SetInsert that writes the row to kv_store as well.
SetInsertWriteThrough(t) ==
  /\ tasks[t].kind = "SET" /\ tasks[t].at = "insert"
  /\ cache' = Put(cache, tasks[t].key, tasks[t].value)
  /\ kv_store' = Put(kv_store, tasks[t].key, tasks[t].value)
  /\ tasks' = [tasks EXCEPT ![t].at = "reply", ![t].res = "OK"]
  /\ obs' = [obs EXCEPT !.writer = Put(@, tasks[t].key, t),
                        !.acked = Without(@, { tasks[t].key }),
                        !.gone = @ \ { tasks[t].key }]
  /\ UNCHANGED << chan, wbuf, pool, clock >>
  /\ UNCHANGED << files, wal_sync, procs, pc, wals, held, crashes, hist >>
  /\ UNCHANGED << codecVars, poolVars, sizeVars, startVars >>
  /\ UNCHANGED rx

\* set_key: state.cache.insert(key, payload.value)
SetInsert(t) ==
  /\ tasks[t].kind = "SET" /\ tasks[t].at = "insert"
  /\ cache' = Put(cache, tasks[t].key, tasks[t].value)
  /\ tasks' = [tasks EXCEPT ![t].at = "reply", ![t].res = "OK"]
  /\ obs' = [obs EXCEPT !.writer = Put(@, tasks[t].key, t),
                        !.acked = Without(@, { tasks[t].key }),
                        !.gone = @ \ { tasks[t].key }]
  /\ UNCHANGED << chan, wbuf, pool, clock >>
  /\ UNCHANGED << recVars, codecVars, poolVars, sizeVars, startVars >>
  /\ UNCHANGED rx

\* delete_key: state.cache.contains_key(&key), NOT_FOUND without it
DelCheck(t) ==
  /\ tasks[t].kind = "DELETE" /\ tasks[t].at = "start"
  /\ tasks' = IF tasks[t].key \in DOMAIN cache
              THEN [tasks EXCEPT ![t].at = "send"]
              ELSE [tasks EXCEPT ![t].at = "reply", ![t].res = "NOT_FOUND"]
  /\ UNCHANGED << cache, chan, wbuf, pool, clock, obs >>
  /\ UNCHANGED << recVars, codecVars, poolVars, sizeVars, startVars >>
  /\ UNCHANGED rx

\* delete_key: state.wal.delete(&key)
DelSend(t) ==
  /\ tasks[t].kind = "DELETE" /\ tasks[t].at = "send"
  /\ \E ts \in Now :
       /\ clock' = ts
       /\ IF rx = "dropped"
            THEN /\ tasks' = [tasks EXCEPT ![t].at = "reply", ![t].res = "ERROR"]
                 /\ obs' = [obs EXCEPT !.strict = @ /\ ts > clock]
                 /\ UNCHANGED chan
            ELSE /\ chan' = Append(chan, EncodeDelete(ts, tasks[t].key))
                 /\ tasks' = [tasks EXCEPT ![t].at = "remove"]
                 /\ obs' = [obs EXCEPT !.strict = @ /\ ts > clock,
                                       !.sent = Append(@, DeleteOp(ts, tasks[t].key))]
  /\ UNCHANGED << cache, wbuf, pool >>
  /\ UNCHANGED << recVars, codecVars, poolVars, sizeVars, startVars >>
  /\ UNCHANGED rx

\* A variant of DelRemove that leaves the map alone.
DelRemoveNothing(t) ==
  /\ tasks[t].kind = "DELETE" /\ tasks[t].at = "remove"
  /\ tasks' = [tasks EXCEPT ![t].at = "reply", ![t].res = "OK"]
  /\ obs' = [obs EXCEPT !.writer = Put(@, tasks[t].key, t),
                        !.acked = Without(@, { tasks[t].key })]
  /\ UNCHANGED << cache, chan, wbuf, pool, clock >>
  /\ UNCHANGED << recVars, codecVars, poolVars, sizeVars, startVars >>
  /\ UNCHANGED rx

\* delete_key: state.cache.remove(&key)
DelRemove(t) ==
  /\ tasks[t].kind = "DELETE" /\ tasks[t].at = "remove"
  /\ cache' = Without(cache, { tasks[t].key })
  /\ tasks' = [tasks EXCEPT ![t].at = "reply", ![t].res = "OK"]
  /\ obs' = [obs EXCEPT !.writer = Put(@, tasks[t].key, t),
                        !.acked = Without(@, { tasks[t].key })]
  /\ UNCHANGED << chan, wbuf, pool, clock >>
  /\ UNCHANGED << recVars, codecVars, poolVars, sizeVars, startVars >>
  /\ UNCHANGED rx

\* get_key: state.cache.get(&key).  obs.lastGet: what it returned, and the
\* value of the last SET on the key answered OK that no insert or remove on
\* the key has followed.
GetKey(t) ==
  /\ tasks[t].kind = "GET" /\ tasks[t].at = "start"
  /\ obs' = [obs EXCEPT !.lastGet =
               [key |-> tasks[t].key,
                got |-> IF tasks[t].key \in DOMAIN cache
                        THEN << cache[tasks[t].key] >> ELSE << >>,
                want |-> IF tasks[t].key \in DOMAIN obs.acked
                         THEN << obs.acked[tasks[t].key] >> ELSE << >>]]
  /\ tasks' = [tasks EXCEPT ![t].at = "reply",
                            ![t].res = IF tasks[t].key \in DOMAIN cache
                                       THEN "OK" ELSE "NOT_FOUND"]
  /\ UNCHANGED << cache, chan, wbuf, pool, clock >>
  /\ UNCHANGED << recVars, codecVars, poolVars, sizeVars, startVars >>
  /\ UNCHANGED rx

\* The handler returns its response.  obs.acked, obs.gone: the keys whose
\* last insert or remove is that of a SET, of a DELETE, that has returned OK.
Reply(t) ==
  /\ tasks[t].at = "reply"
  /\ tasks' = [tasks EXCEPT ![t] = IdleTask]
  /\ LET mine == /\ tasks[t].res = "OK"
                 /\ tasks[t].key \in DOMAIN obs.writer
                 /\ obs.writer[tasks[t].key] = t
     IN obs' = [obs EXCEPT
                  !.acked = IF tasks[t].kind = "SET" /\ mine
                            THEN Put(@, tasks[t].key, tasks[t].value) ELSE @,
                  !.gone = IF tasks[t].kind = "DELETE" /\ mine
                           THEN @ \cup { tasks[t].key } ELSE @]
  /\ UNCHANGED << cache, chan, wbuf, pool, clock >>
  /\ UNCHANGED << recVars, codecVars, poolVars, sizeVars, startVars >>
  /\ UNCHANGED rx

\* A variant of FlushTo that writes the buffer twice.
FlushTwice(fs, bytes) ==
  IF pool[1] \in DOMAIN fs
  THEN [fs EXCEPT ![pool[1]].bytes = @ \o bytes \o bytes]
  ELSE fs

\* flush_buffer(&buffer): get_writer_file() takes the first slot whose lock
\* is free, slot 0 for the one writer task; write_all and sync_data on its
\* file (a file deleted from the directory stays deleted).
FlushTo(fs, bytes) ==
  IF pool[1] \in DOMAIN fs
  THEN [fs EXCEPT ![pool[1]].bytes = @ \o bytes]
  ELSE fs

\* A variant of WriterRecv that puts the record in front of the buffer.
WriterRecvInFront ==
  /\ WriterRuns /\ rx = "taken"
  /\ chan # << >>
  /\ chan' = Tail(chan)
  /\ IF Len(Head(chan) \o wbuf) >= FLUSH_THRESHOLD
       THEN /\ files' = FlushTo(files, Head(chan) \o wbuf)
            /\ wbuf' = << >>
       ELSE /\ wbuf' = Head(chan) \o wbuf
            /\ UNCHANGED files
  /\ UNCHANGED << wal_sync, kv_store, procs, pc, wals, held, crashes, hist >>
  /\ UNCHANGED << cache, pool, clock, tasks, obs >>
  /\ UNCHANGED << codecVars, poolVars, sizeVars, startVars >>
  /\ UNCHANGED rx

\* background_writer_impl: rx.recv() returned a record
WriterRecv ==
  /\ WriterRuns /\ rx = "taken"
  /\ chan # << >>
  /\ chan' = Tail(chan)
  /\ IF Len(wbuf \o Head(chan)) >= FLUSH_THRESHOLD
       THEN /\ files' = FlushTo(files, wbuf \o Head(chan))
            /\ wbuf' = << >>
       ELSE /\ wbuf' = wbuf \o Head(chan)
            /\ UNCHANGED files
  /\ UNCHANGED << wal_sync, kv_store, procs, pc, wals, held, crashes, hist >>
  /\ UNCHANGED << cache, pool, clock, tasks, obs >>
  /\ UNCHANGED << codecVars, poolVars, sizeVars, startVars >>
  /\ UNCHANGED rx

\* A variant of WriterTick that clears the buffer and writes nothing.
WriterTickDrop ==
  /\ WriterRuns /\ rx = "taken"
  /\ wbuf # << >>
  /\ wbuf' = << >>
  /\ UNCHANGED << files, wal_sync, kv_store, procs, pc, wals, held, crashes, hist >>
  /\ UNCHANGED << cache, chan, pool, clock, tasks, obs >>
  /\ UNCHANGED << codecVars, poolVars, sizeVars, startVars >>
  /\ UNCHANGED rx

\* background_writer_impl: flush_timer.tick() with a buffer that is not empty
WriterTick ==
  /\ WriterRuns /\ rx = "taken"
  /\ wbuf # << >>
  /\ files' = FlushTo(files, wbuf)
  /\ wbuf' = << >>
  /\ UNCHANGED << wal_sync, kv_store, procs, pc, wals, held, crashes, hist >>
  /\ UNCHANGED << cache, chan, pool, clock, tasks, obs >>
  /\ UNCHANGED << codecVars, poolVars, sizeVars, startVars >>
  /\ UNCHANGED rx

\* The serving process is killed and started again: what it held in memory
\* is gone, main runs from its beginning.  obs.atStop: the map as it was,
\* whether no handler was running and every record enqueued was in its
\* segment, and how many bytes of a write cut short had reached the segment.
\* obs.wrote: the key and value of every SET enqueued since the first start.
Stop(p) ==
  /\ pc[p] = "serving"
  /\ obs.stops < MaxStops
  /\ obs' = [obs EXCEPT !.stops = @ + 1,
                        !.atStop = << [cache |-> cache, torn |-> 0,
                                       quiet |-> (Busy = {} /\ chan = << >>
                                                    /\ wbuf = << >>)] >>,
                        !.acked = EmptyTable, !.writer = EmptyTable,
                        !.lastGet = NoGet, !.sent = << >>, !.gone = {}]
  /\ pc' = [pc EXCEPT ![p] = "recover"]
  /\ wals' = [wals EXCEPT ![p] = << >>]
  /\ held' = [held EXCEPT ![p] = << >>]
  /\ cache' = EmptyTable
  /\ chan' = << >>
  /\ rx' = "held"
  /\ wbuf' = << >>
  /\ pool' = << >>
  /\ tasks' = [t \in 1..MaxTasks |-> IdleTask]
  /\ UNCHANGED << files, wal_sync, kv_store, procs, crashes, hist, clock >>
  /\ UNCHANGED << codecVars, poolVars, sizeVars, startVars >>

\* How much of a buffer of n bytes a write cut short has written: one byte,
\* all but the last two bytes, all but the last byte.
WriteCuts(n) == { c \in { 1, n - 2, n - 1 } : c >= 1 /\ c < n }

\* The serving process is killed inside flush_buffer's write_all on a timer
\* tick: a proper prefix of the writer's buffer has reached the segment.
StopMidWrite(p) ==
  /\ pc[p] = "serving"
  /\ obs.stops < MaxStops
  /\ rx = "taken" /\ wbuf # << >>
  /\ \E c \in WriteCuts(Len(wbuf)) :
       /\ files' = FlushTo(files, SubSeq(wbuf, 1, c))
       /\ obs' = [obs EXCEPT !.stops = @ + 1,
                             !.atStop = << [cache |-> cache, torn |-> c,
                                            quiet |-> FALSE] >>,
                             !.acked = EmptyTable, !.writer = EmptyTable,
                             !.lastGet = NoGet, !.sent = << >>, !.gone = {}]
  /\ pc' = [pc EXCEPT ![p] = "recover"]
  /\ wals' = [wals EXCEPT ![p] = << >>]
  /\ held' = [held EXCEPT ![p] = << >>]
  /\ cache' = EmptyTable
  /\ chan' = << >>
  /\ rx' = "held"
  /\ wbuf' = << >>
  /\ pool' = << >>
  /\ tasks' = [t \in 1..MaxTasks |-> IdleTask]
  /\ UNCHANGED << wal_sync, kv_store, procs, crashes, hist, clock >>
  /\ UNCHANGED << codecVars, poolVars, sizeVars, startVars >>

Init == InitFrom(SrvStarts)
Next ==
  \/ \E p \in procs : RecList(p)
  \/ \E p \in procs : RecMeta(p)
  \/ \E p \in procs : RecCreate(p)
  \/ \E p \in procs : RecOpen(p)
  \/ \E p \in procs : RecHeartbeat(p)
  \/ \E p \in procs : RecCommit(p)
  \/ \E p \in procs : RecRemoveWal(p)
  \/ \E p \in procs : RecRemoveLock(p)
  \/ \E p \in procs : RecSync(p)
  \/ \E p \in procs : BootInitPool(p)
  \/ \E p \in procs : BootLoad(p)
  \/ \E p \in procs : BootStartWriter(p)
  \/ \E p \in procs : BootListen(p)
  \/ \E req \in Requests : Begin(req)
  \/ \E t \in 1..MaxTasks : SetSend(t)
  \/ \E t \in 1..MaxTasks : SetInsert(t)
  \/ \E t \in 1..MaxTasks : DelCheck(t)
  \/ \E t \in 1..MaxTasks : DelSend(t)
  \/ \E t \in 1..MaxTasks : DelRemove(t)
  \/ \E t \in 1..MaxTasks : GetKey(t)
  \/ \E t \in 1..MaxTasks : Reply(t)
  \/ WriterRecv
  \/ WriterTick
  \/ \E p \in procs : Stop(p)
Spec == Init /\ [][Next]_vars

\* The writer task ends and its receiver is dropped, with the records still
\* in the channel and in the task's buffer: from then on tx.send fails.
WriterDies ==
  /\ WriterRuns /\ rx = "taken"
  /\ rx' = "dropped"
  /\ chan' = << >>
  /\ wbuf' = << >>
  /\ UNCHANGED << cache, pool, clock, tasks, obs >>
  /\ UNCHANGED << recVars, codecVars, poolVars, sizeVars, startVars >>

\* The server, killed at any moment of serving, a write under way or not.
CrashNext == Next \/ \E p \in procs : StopMidWrite(p)
SpecCrash == Init /\ [][CrashNext]_vars

\* The server with a writer task that may end while the process serves.
FaultNext == Next \/ WriterDies
SpecFaults == Init /\ [][FaultNext]_vars

\* axum::serve returns with no request in flight and main comes to its end:
\* nothing in main drops the WAL's sender or waits for the writer task, whose
\* own Arc<WAL> keeps the channel open; the runtime is dropped and the writer
\* task with it, at its select!, with what it had in its buffer and what was
\* in the channel.
Shutdown(p) ==
  /\ pc[p] = "serving"
  /\ Busy = {}
  /\ pc' = [pc EXCEPT ![p] = "returned"]
  /\ chan' = << >>
  /\ wbuf' = << >>
  /\ rx' = "dropped"
  /\ UNCHANGED << files, wal_sync, kv_store, procs, wals, held, crashes, hist >>
  /\ UNCHANGED << cache, pool, clock, tasks, obs >>
  /\ UNCHANGED << codecVars, poolVars, sizeVars, startVars >>

\* The server with an orderly end of main.
ShutdownNext == Next \/ \E p \in procs : Shutdown(p)
SpecShutdown == Init /\ [][ShutdownNext]_vars

\* The writer task is scheduled: a select! branch that stays ready (a record
\* in the channel, a timer tick with a buffer that is not empty) is taken.
SpecLive == Spec /\ WF_vars(WriterRecv) /\ WF_vars(WriterTick)

\* A second server process is started on the log directory and the store of
\* a process that is serving: process 1 has its pool and its writer task,
\* process 2 is at main's call of recover().
SecondInit ==
  /\ CodecIdle
  /\ PoolIdle
  /\ SizeIdle
  /\ StartIdle
  /\ hist \in { Hist0([st EXCEPT !.procs = { 1, 2 }]) : st \in SrvStarts }
  /\ procs = hist.start.procs
  /\ pc = [p \in procs |-> IF p = 1 THEN "serving" ELSE "recover"]
  /\ wals = [p \in procs |-> << >>]
  /\ held = [p \in procs |-> << >>]
  /\ crashes = 0
  /\ files = [n \in { Segment(i) : i \in 1..hist.start.pool_size } |->
                NewFile(<< >>, 1)]
  /\ wal_sync = EmptyTable
  /\ kv_store = hist.start.kv
  /\ cache = hist.start.kv
  /\ chan = << >>
  /\ rx = "taken"
  /\ wbuf = << >>
  /\ pool = [i \in 1..hist.start.pool_size |-> Segment(i)]
  /\ clock = hist.start.pool_size
  /\ tasks = [t \in 1..MaxTasks |-> IdleTask]
  /\ obs = [acked |-> EmptyTable, writer |-> EmptyTable, lastGet |-> NoGet,
            atStop |-> << >>, serial |-> TRUE, strict |-> TRUE,
            stops |-> 0, requests |-> 0, sent |-> << >>,
            gone |-> {}, wrote |-> {}]
SecondNext ==
  \/ \E p \in procs : RecList(p)
  \/ \E p \in procs : RecMeta(p)
  \/ \E p \in procs : RecCreate(p)
  \/ \E p \in procs : RecOpen(p)
  \/ \E p \in procs : RecHeartbeat(p)
  \/ \E p \in procs : RecCommit(p)
  \/ \E p \in procs : RecRemoveWal(p)
  \/ \E p \in procs : RecRemoveLock(p)
  \/ \E p \in procs : RecSync(p)
  \/ \E req \in { r \in Requests : r.kind = "SET" } : Begin(req)
  \/ \E t \in 1..MaxTasks : SetSend(t)
  \/ \E t \in 1..MaxTasks : SetInsert(t)
  \/ \E t \in 1..MaxTasks : Reply(t)
  \/ WriterRecv
  \/ WriterTick
SpecSecond == SecondInit /\ [][SecondNext]_vars

(***************************************************************************)
(* Bootstrap: main from its first statement to the listener, over a        *)
(* directory with segments to recover, with the failures main handles.     *)
(***************************************************************************)
\* The deployments bootstrap runs on: up to two records in two segments, no
\* lock file.
BootStarts ==
  { [procs |-> { 1 }, lock |-> "none", kv |-> Kv0,
     segs |-> << SubSeq(ri[1], 1, ri[2]), SubSeq(ri[1], ri[2] + 1, Len(ri[1])) >>,
     pool_size |-> n] :
      ri \in { x \in DirRecords : Len(x[1]) < MaxDirRecs },
      n \in 1..wal_pool_size }

\* main: sqlx::migrate!().run(&pool) returned Ok
BootMigrate(p) ==
  /\ pc[p] = "migrate"
  /\ pc' = [pc EXCEPT ![p] = "wal_new"]
  /\ UNCHANGED << files, wal_sync, kv_store, procs, wals, held, crashes, hist >>
  /\ UNCHANGED << srvVars, codecVars, poolVars, sizeVars, startVars >>

\* main: the migration failed: panic!("Database migration failed")
BootMigrateFails(p) ==
  /\ pc[p] = "migrate"
  /\ pc' = [pc EXCEPT ![p] = "panicked"]
  /\ UNCHANGED << files, wal_sync, kv_store, procs, wals, held, crashes, hist >>
  /\ UNCHANGED << srvVars, codecVars, poolVars, sizeVars, startVars >>

\* main: WAL::new(pool.clone(), &config.logs_dir): the channel is created
\* and the WAL holds both its ends; it returns Ok always.
BootNewWal(p) ==
  /\ pc[p] = "wal_new"
  /\ chan' = << >>
  /\ rx' = "held"
  /\ pool' = << >>
  /\ pc' = [pc EXCEPT ![p] = "recover"]
  /\ UNCHANGED << files, wal_sync, kv_store, procs, wals, held, crashes, hist >>
  /\ UNCHANGED << cache, wbuf, clock, tasks, obs >>
  /\ UNCHANGED << codecVars, poolVars, sizeVars, startVars >>

\* main: wal.recover() returned Err (fs::read_dir or next_entry failed: the
\* `?` of recover()): main logs it and returns.
RecoverFails(p) ==
  /\ pc[p] = "recover"
  /\ pc' = [pc EXCEPT ![p] = "returned"]
  /\ UNCHANGED << files, wal_sync, kv_store, procs, wals, held, crashes, hist >>
  /\ UNCHANGED << srvVars, codecVars, poolVars, sizeVars, startVars >>

\* main: wal.sync_db_tables() returned Err (a statement or the commit
\* failed, the transaction rolls back): main logs it and returns.
RecSyncFails(p) ==
  /\ pc[p] = "sync"
  /\ pc' = [pc EXCEPT ![p] = "returned"]
  /\ UNCHANGED << files, wal_sync, kv_store, procs, wals, held, crashes, hist >>
  /\ UNCHANGED << srvVars, codecVars, poolVars, sizeVars, startVars >>

\* initialize_pool: get_file() fails for slot i (create_dir_all(..).unwrap()
\* or open(..).expect(..)): a panic, the segments of the slots before i
\* created.
BootInitPoolFails(p) ==
  /\ pc[p] = "synced"
  /\ \E i \in 1..hist.start.pool_size :
       LET new == { Segment(clock + j) : j \in 1..(i - 1) }
       IN /\ files' = [n \in DOMAIN files \cup new |->
                         IF n \in DOMAIN files THEN files[n] ELSE NewFile(<< >>, p)]
          /\ clock' = clock + (i - 1)
  /\ pc' = [pc EXCEPT ![p] = "panicked"]
  /\ UNCHANGED << wal_sync, kv_store, procs, wals, held, crashes, hist >>
  /\ UNCHANGED << cache, chan, rx, wbuf, pool, tasks, obs >>
  /\ UNCHANGED << codecVars, poolVars, sizeVars, startVars >>

\* main: load_kvstore_inmemory() returned Err (the SELECT failed, nothing
\* inserted): main logs it and returns.
BootLoadFails(p) ==
  /\ pc[p] = "load"
  /\ pc' = [pc EXCEPT ![p] = "returned"]
  /\ UNCHANGED << files, wal_sync, kv_store, procs, wals, held, crashes, hist >>
  /\ UNCHANGED << srvVars, codecVars, poolVars, sizeVars, startVars >>

\* The process has ended: main returned, or panicked.
Exited(p) == pc[p] \in { "returned", "panicked" }

\* The exit status of a process that has ended: 0 when main returns, 101
\* when it panics.
exit_status(p) == IF pc[p] = "panicked" THEN 101 ELSE 0

\* The step of main's that the process is at.
BootStep(p) ==
  CASE pc[p] = "migrate" -> "migrate"
    [] pc[p] = "wal_new" -> "construct"
    [] pc[p] \in { "recover", "meta", "unstale", "create", "open", "commit",
                   "rm_wal", "rm_lock" } -> "recover"
    [] pc[p] = "sync" -> "reconcile"
    [] pc[p] = "synced" -> "initialize_pool"
    [] pc[p] = "load" -> "load_cache"
    [] pc[p] = "start_writer" -> "start_writer"
    [] pc[p] = "listen" -> "bind"
    [] pc[p] = "serving" -> "serving"
    [] OTHER -> "exited"

BootInit == InitAt(BootStarts, "migrate")
BootNext ==
  \/ \E p \in procs : BootMigrate(p)
  \/ \E p \in procs : BootNewWal(p)
  \/ \E p \in procs : RecList(p)
  \/ \E p \in procs : RecMeta(p)
  \/ \E p \in procs : RecCreate(p)
  \/ \E p \in procs : RecOpen(p)
  \/ \E p \in procs : RecHeartbeat(p)
  \/ \E p \in procs : RecCommit(p)
  \/ \E p \in procs : RecRemoveWal(p)
  \/ \E p \in procs : RecRemoveLock(p)
  \/ \E p \in procs : RecSync(p)
  \/ \E p \in procs : BootInitPool(p)
  \/ \E p \in procs : BootLoad(p)
  \/ \E p \in procs : BootStartWriter(p)
  \/ \E p \in procs : BootListen(p)
  \/ \E p \in procs : BootMigrateFails(p)
  \/ \E p \in procs : RecoverFails(p)
  \/ \E p \in procs : RecSyncFails(p)
  \/ \E p \in procs : BootInitPoolFails(p)
  \/ \E p \in procs : BootLoadFails(p)
SpecBoot == BootInit /\ [][BootNext]_vars

\* The deployments of a first start: those of BootStarts, whose log directory
\* exists, and one whose configured log directory does not exist yet.
FirstStarts ==
  { [procs |-> st.procs, lock |-> st.lock, kv |-> st.kv, segs |-> st.segs,
     pool_size |-> st.pool_size, dir |-> d] :
      st \in BootStarts, d \in BOOLEAN }
    \ { st \in [procs : { { 1 } }, lock : { "none" }, kv : { Kv0 },
                segs : { s.segs : s \in BootStarts },
                pool_size : 1..wal_pool_size, dir : { FALSE }] :
          st.segs # << << >>, << >> >> }

\* recover: fs::read_dir(&self.logs_dir) returns Err(NotFound) when the
\* directory does not exist.
NoDirectory == "dir" \in DOMAIN hist.start /\ ~hist.start.dir

\* main from its first statement with a store that works; recover()'s
\* read_dir fails exactly when the log directory is missing.
FirstInit == InitAt(FirstStarts, "migrate")
FirstNext ==
  \/ \E p \in procs : BootMigrate(p)
  \/ \E p \in procs : BootNewWal(p)
  \/ \E p \in procs : ~NoDirectory /\ RecList(p)
  \/ \E p \in procs : NoDirectory /\ RecoverFails(p)
  \/ \E p \in procs : RecMeta(p)
  \/ \E p \in procs : RecCreate(p)
  \/ \E p \in procs : RecOpen(p)
  \/ \E p \in procs : RecHeartbeat(p)
  \/ \E p \in procs : RecCommit(p)
  \/ \E p \in procs : RecRemoveWal(p)
  \/ \E p \in procs : RecRemoveLock(p)
  \/ \E p \in procs : RecSync(p)
  \/ \E p \in procs : BootInitPool(p)
  \/ \E p \in procs : BootLoad(p)
  \/ \E p \in procs : BootStartWriter(p)
  \/ \E p \in procs : BootListen(p)
SpecFirst == FirstInit /\ [][FirstNext]_vars

(***************************************************************************)
(* The pool: tasks that share the WAL call flush_buffer() concurrently,    *)
(* each appending one buffer to the segment of the slot get_writer_file()  *)
(* gives it.  The RwLock of a slot is tokio's: try_write() takes it when   *)
(* it is free, write().await queues first come first served, and a         *)
(* released lock passes to the head of its queue.                          *)
(***************************************************************************)
MaxCallers == 3
MaxCalls == 1

IdleCaller ==
  [at |-> "idle", i |-> 0, slot |-> 0, how |-> "", failed |-> {}, calls |-> 0]

FreeLock == [holder |-> 0, queue |-> << >>]

\* The buffer caller c appends, and the part of it that write_all's first
\* write takes (the opcode and the timestamp).
BufferOf(c) == EncodeSet(c, KeyA, << 48 + c >>)
FirstWrite(buf) == SubSeq(buf, 1, 17)
RestWrite(buf) == SubSeq(buf, 18, Len(buf))

\* A process that has just started to serve on an empty directory: the pool
\* of pool_size new segments, every lock free, no task in flush_buffer.
DispatchInit ==
  /\ CodecIdle
  /\ hist \in { Hist0(st) : st \in SrvStarts }
  /\ procs = hist.start.procs
  /\ pc = [p \in procs |-> "serving"]
  /\ wals = [p \in procs |-> << >>]
  /\ held = [p \in procs |-> << >>]
  /\ crashes = 0
  /\ files = [n \in { Segment(i) : i \in 1..hist.start.pool_size } |->
                NewFile(<< >>, 1)]
  /\ wal_sync = EmptyTable
  /\ kv_store = hist.start.kv
  /\ cache = hist.start.kv
  /\ chan = << >>
  /\ rx = "taken"
  /\ wbuf = << >>
  /\ pool = [i \in 1..hist.start.pool_size |-> Segment(i)]
  /\ clock = hist.start.pool_size
  /\ tasks = [t \in 1..MaxTasks |-> IdleTask]
  /\ obs = [acked |-> EmptyTable, writer |-> EmptyTable, lastGet |-> NoGet,
            atStop |-> << >>, serial |-> TRUE, strict |-> TRUE,
            stops |-> 0, requests |-> 0, sent |-> << >>,
            gone |-> {}, wrote |-> {}]
  /\ rwlock = [i \in 1..hist.start.pool_size |-> FreeLock]
  /\ callers = [c \in 1..MaxCallers |-> IdleCaller]
  /\ SizeIdle
  /\ StartIdle

\* A variant of GwfCall that starts the scan at any slot.
GwfCallAnySlot(c) ==
  /\ callers[c].at = "idle"
  /\ callers[c].calls < MaxCalls
  /\ \E i \in 1..Len(pool) :
       callers' = [callers EXCEPT ![c] = [at |-> "scan", i |-> i, slot |-> 0,
                                          how |-> "", failed |-> {},
                                          calls |-> @.calls + 1]]
  /\ UNCHANGED << rwlock, recVars, srvVars, codecVars, sizeVars, startVars >>

\* flush_buffer calls get_writer_file(): `for i in &self.pool` begins.
GwfCall(c) ==
  /\ callers[c].at = "idle"
  /\ callers[c].calls < MaxCalls
  /\ callers' = [callers EXCEPT ![c] = [at |-> "scan", i |-> 1, slot |-> 0,
                                        how |-> "", failed |-> {},
                                        calls |-> @.calls + 1]]
  /\ UNCHANGED << rwlock, recVars, srvVars, codecVars, sizeVars, startVars >>

\* A variant of GwfTry whose try_write() succeeds on a lock that is held.
GwfTryAlways(c) ==
  /\ callers[c].at = "scan"
  /\ LET i == callers[c].i
     IN /\ rwlock' = [rwlock EXCEPT ![i].holder = c]
        /\ callers' = [callers EXCEPT ![c].at = "hold", ![c].slot = i,
                                      ![c].how = "try"]
  /\ UNCHANGED << recVars, srvVars, codecVars, sizeVars, startVars >>

\* get_writer_file: i.try_write() on the slot the loop is at: the guard, and
\* the function returns it; or the next slot; after the last slot, the slow
\* path.  failed: the slots whose try_write() failed.
GwfTry(c) ==
  /\ callers[c].at = "scan"
  /\ LET i == callers[c].i
     IN IF rwlock[i].holder = 0
          THEN /\ rwlock' = [rwlock EXCEPT ![i].holder = c]
               /\ callers' = [callers EXCEPT ![c].at = "hold", ![c].slot = i,
                                             ![c].how = "try"]
          ELSE /\ callers' = [callers EXCEPT
                                ![c].failed = @ \cup { i },
                                ![c].at = IF i = Len(pool) THEN "pick" ELSE "scan",
                                ![c].i = IF i = Len(pool) THEN i ELSE i + 1]
               /\ UNCHANGED rwlock
  /\ UNCHANGED << recVars, srvVars, codecVars, sizeVars, startVars >>

\* get_writer_file: self.pool[fastrand::usize(0..self.pool_size)].write().await:
\* any slot; its guard at once when the lock is free by now, else the task
\* queues for it.
GwfPick(c) ==
  /\ callers[c].at = "pick"
  /\ \E s \in 1..Len(pool) :
       IF rwlock[s].holder = 0
         THEN /\ rwlock' = [rwlock EXCEPT ![s].holder = c]
              /\ callers' = [callers EXCEPT ![c].at = "hold", ![c].slot = s,
                                            ![c].how = "write"]
         ELSE /\ rwlock' = [rwlock EXCEPT ![s].queue = Append(@, c)]
              /\ callers' = [callers EXCEPT ![c].at = "wait", ![c].slot = s,
                                            ![c].how = "wait"]
  /\ UNCHANGED << recVars, srvVars, codecVars, sizeVars, startVars >>

\* write_and_flush: write_all(buf), the first write to the file
WriteFirst(c) ==
  /\ callers[c].at = "hold"
  /\ files' = [files EXCEPT ![pool[callers[c].slot]].bytes =
                               @ \o FirstWrite(BufferOf(c))]
  /\ callers' = [callers EXCEPT ![c].at = "writing"]
  /\ UNCHANGED << wal_sync, kv_store, procs, pc, wals, held, crashes, hist >>
  /\ UNCHANGED << rwlock, srvVars, codecVars, sizeVars, startVars >>

\* write_and_flush: write_all(buf), the rest of the buffer, and sync_data()
WriteRest(c) ==
  /\ callers[c].at = "writing"
  /\ files' = [files EXCEPT ![pool[callers[c].slot]].bytes =
                               @ \o RestWrite(BufferOf(c))]
  /\ callers' = [callers EXCEPT ![c].at = "written"]
  /\ UNCHANGED << wal_sync, kv_store, procs, pc, wals, held, crashes, hist >>
  /\ UNCHANGED << rwlock, srvVars, codecVars, sizeVars, startVars >>

\* A variant of GuardDrop in which flush_buffer returns and the guard stays.
GuardKept(c) ==
  /\ callers[c].at = "written"
  /\ callers' = [callers EXCEPT ![c].at = "idle"]
  /\ UNCHANGED << rwlock, recVars, srvVars, codecVars, sizeVars, startVars >>

\* flush_buffer returns and its guard is dropped: the lock is free, or
\* passes to the task that has waited longest for it, whose write().await
\* returns.
GuardDrop(c) ==
  /\ callers[c].at = "written"
  /\ LET s == callers[c].slot
         q == rwlock[s].queue
     IN IF q = << >>
          THEN /\ rwlock' = [rwlock EXCEPT ![s].holder = 0]
               /\ callers' = [callers EXCEPT ![c].at = "idle"]
          ELSE /\ rwlock' = [rwlock EXCEPT ![s].holder = Head(q),
                                           ![s].queue = Tail(q)]
               /\ callers' = [callers EXCEPT ![c].at = "idle",
                                             ![Head(q)].at = "hold"]
  /\ UNCHANGED << recVars, srvVars, codecVars, sizeVars, startVars >>

DispatchNext ==
  \/ \E c \in 1..MaxCallers : GwfCall(c)
  \/ \E c \in 1..MaxCallers : GwfTry(c)
  \/ \E c \in 1..MaxCallers : GwfPick(c)
  \/ \E c \in 1..MaxCallers : WriteFirst(c)
  \/ \E c \in 1..MaxCallers : WriteRest(c)
  \/ \E c \in 1..MaxCallers : GuardDrop(c)
SpecDispatch == DispatchInit /\ [][DispatchNext]_vars

\* Every task that holds a guard goes on to write and to drop it.
SpecDispatchLive ==
  /\ SpecDispatch
  /\ \A c \in 1..MaxCallers :
       WF_vars(WriteFirst(c)) /\ WF_vars(WriteRest(c)) /\ WF_vars(GuardDrop(c))

(***************************************************************************)
(* The pool as the program uses it: background_writer_impl is the one      *)
(* caller of flush_buffer(), and it awaits each call before it makes the   *)
(* next.  The writer is task 1 of the callers; the handlers send to the    *)
(* channel meanwhile and never touch the pool.  GwfPick is no step here:   *)
(* its guard is the state "pick", which GwfTry enters when every           *)
(* try_write() of the scan failed.                                         *)
(***************************************************************************)
MaxFlushes == 3
WriterTask == 1

\* background_writer_impl: self.flush_buffer(&buffer).await at one of its
\* three places; the loop goes on when the call has returned.
WriterFlush ==
  /\ callers[WriterTask].at = "idle"
  /\ callers[WriterTask].calls < MaxFlushes
  /\ callers' = [callers EXCEPT ![WriterTask] =
                   [at |-> "scan", i |-> 1, slot |-> 0, how |-> "",
                    failed |-> {}, calls |-> @.calls + 1]]
  /\ UNCHANGED << rwlock, recVars, srvVars, codecVars, sizeVars, startVars >>

(***************************************************************************)
(* The writer loop by lengths: background_writer_impl's decisions depend    *)
(* on buffer.len() and data.len() alone, so records here are their lengths  *)
(* and FLUSH_THRESHOLD has its value of the source.                         *)
(***************************************************************************)
MaxSends == 3

\* data.len() of the records sent: a SET of a one-byte key and value, and
\* records that bring the buffer next to, onto and over FLUSH_THRESHOLD.
DataLens ==
  { Len(EncodeSet(0, KeyA, << 49 >>)),
    FLUSH_THRESHOLD \div 2 - 1, FLUSH_THRESHOLD \div 2,
    FLUSH_THRESHOLD - 1, FLUSH_THRESHOLD, FLUSH_THRESHOLD + 1 }

\* The writer task started, nothing sent yet.
SizeInit ==
  /\ CodecIdle
  /\ RecIdle
  /\ SrvIdle
  /\ PoolIdle
  /\ lens = NoLens
  /\ StartIdle

\* WAL::set / WAL::delete: tx.send(buffer) of a record of n bytes
SizeSend(n) ==
  /\ lens.sent < MaxSends
  /\ lens' = [lens EXCEPT !.chan = Append(@, n), !.sent = @ + 1]
  /\ UNCHANGED << codecVars, recVars, srvVars, poolVars, startVars >>

\* A variant of SizeRecv that flushes only above FLUSH_THRESHOLD.
SizeRecvAbove ==
  /\ lens.chan # << >>
  /\ LET n == lens.buffer + Head(lens.chan)
     IN lens' = IF n > FLUSH_THRESHOLD
                THEN [lens EXCEPT !.chan = Tail(@), !.buffer = 0,
                                  !.writes = Append(@, n)]
                ELSE [lens EXCEPT !.chan = Tail(@), !.buffer = n]
  /\ UNCHANGED << codecVars, recVars, srvVars, poolVars, startVars >>

\* background_writer_impl: rx.recv() returned a record: extend_from_slice,
\* and at FLUSH_THRESHOLD flush_buffer(&buffer) and buffer.clear().
SizeRecv ==
  /\ lens.chan # << >>
  /\ LET n == lens.buffer + Head(lens.chan)
     IN lens' = IF n >= FLUSH_THRESHOLD
                THEN [lens EXCEPT !.chan = Tail(@), !.buffer = 0,
                                  !.writes = Append(@, n)]
                ELSE [lens EXCEPT !.chan = Tail(@), !.buffer = n]
  /\ UNCHANGED << codecVars, recVars, srvVars, poolVars, startVars >>

\* background_writer_impl: flush_timer.tick() with a buffer that is not empty
SizeTick ==
  /\ lens.buffer > 0
  /\ lens' = [lens EXCEPT !.buffer = 0, !.writes = Append(@, lens.buffer)]
  /\ UNCHANGED << codecVars, recVars, srvVars, poolVars, startVars >>

SizeNext ==
  \/ \E n \in DataLens : SizeSend(n)
  \/ SizeRecv
  \/ SizeTick
SpecSize == SizeInit /\ [][SizeNext]_vars

\* The one writer and the pool, the handlers sending meanwhile.
SingleNext ==
  \/ WriterFlush
  \/ GwfTry(WriterTask)
  \/ WriteFirst(WriterTask)
  \/ WriteRest(WriterTask)
  \/ GuardDrop(WriterTask)
  \/ \E n \in DataLens : SizeSend(n)
SpecSingle == DispatchInit /\ [][SingleNext]_vars

\* background_writer_impl: rx.recv() returned a record that fills the buffer
\* and flush_buffer(&buffer) returns Err (write_all or sync_data failed): the
\* error is logged, and buffer.clear() follows all the same.
SizeRecvFails ==
  /\ lens.chan # << >>
  /\ lens.buffer + Head(lens.chan) >= FLUSH_THRESHOLD
  /\ lens' = [lens EXCEPT !.chan = Tail(@), !.buffer = 0]
  /\ UNCHANGED << codecVars, recVars, srvVars, poolVars, startVars >>

\* background_writer_impl: flush_timer.tick() with a buffer that is not
\* empty and flush_buffer(&buffer) returns Err: logged, buffer.clear().
SizeTickFails ==
  /\ lens.buffer > 0
  /\ lens' = [lens EXCEPT !.buffer = 0]
  /\ UNCHANGED << codecVars, recVars, srvVars, poolVars, startVars >>

\* The writer loop over a segment whose writes may fail.
FlushFailsNext ==
  \/ SizeNext
  \/ SizeRecvFails
  \/ SizeTickFails
SpecFlushFails == SizeInit /\ [][FlushFailsNext]_vars

(***************************************************************************)
(* start_background_writer() called by several tasks on one WAL value,      *)
(* while records are sent and the writer, once spawned, consumes them.      *)
(***************************************************************************)
MaxStarts == 3

\* A variant of StartTake that reads the receiver and leaves it in the WAL.
StartTakeCopy(c) ==
  /\ calls.at[c] = "lock"
  /\ calls' = [calls EXCEPT !.at[c] = IF rx = "held" THEN "some" ELSE "none"]
  /\ UNCHANGED << codecVars, recVars, srvVars, poolVars, sizeVars >>

\* start_background_writer: self.rx.lock().await and rx_option.take(), the
\* guard dropped at the end of the block: the caller has Some(rx) when the
\* receiver was still in the WAL, None otherwise.
StartTake(c) ==
  /\ calls.at[c] = "lock"
  /\ calls' = [calls EXCEPT !.at[c] = IF rx = "held" THEN "some" ELSE "none"]
  /\ rx' = IF rx = "held" THEN "taken" ELSE rx
  /\ UNCHANGED << cache, chan, wbuf, pool, clock, tasks, obs >>
  /\ UNCHANGED << codecVars, recVars, poolVars, sizeVars >>

\* start_background_writer: tokio::spawn of background_writer_impl(rx) with
\* Some(rx), the error logged with None.
StartSpawn(c) ==
  /\ calls.at[c] \in { "some", "none" }
  /\ calls' = [calls EXCEPT !.at[c] = "done",
                              !.writers = IF calls.at[c] = "some"
                                          THEN @ + 1 ELSE @]
  /\ UNCHANGED << codecVars, recVars, srvVars, poolVars, sizeVars >>

\* WAL::new, and MaxStarts tasks about to call start_background_writer().
StartInit ==
  /\ CodecIdle
  /\ RecIdle
  /\ SrvIdle
  /\ PoolIdle
  /\ SizeIdle
  /\ calls = [at |-> [c \in 1..MaxStarts |-> "lock"], writers |-> 0]

StartNext ==
  \/ \E c \in 1..MaxStarts : StartTake(c)
  \/ \E c \in 1..MaxStarts : StartSpawn(c)
  \/ \E n \in DataLens : SizeSend(n)
  \/ (calls.writers > 0 /\ SizeRecv)
  \/ (calls.writers > 0 /\ SizeTick)
SpecStart == StartInit /\ [][StartNext]_vars

(***************************************************************************)
(* Properties of the codec.                                                *)
(***************************************************************************)
CleanSingle == Len(src.recs) = 1 /\ src.junk = NoJunk
Fed == dropped + Len(buffer)
JunkPos == Len(EncodeAll(SubSeq(src.recs, 1, src.at)))

\* C7 (codec round-trip): a fresh decoder fed exactly encode(R) returns
\* Some(Ok(R)) from its first next_operation() with R's variant, timestamp,
\* key and value, and None from the following call.
C7_RoundTrip ==
  (CleanSingle /\ stream = << >> /\ ~early /\ last.res # "NoCall") =>
    /\ ops = src.recs
    /\ prev = "NoCall" => last.res = "Ok"
    /\ prev # "NoCall" => (prev = "Ok" /\ last.res = "None")

C7_Witness ==
  /\ CleanSingle /\ stream = << >> /\ ~early
  /\ prev = "Ok" /\ last.res = "None"
  /\ ops = src.recs /\ src.recs[1].kind = "Set"

\* C8 (chunking independence): once a concatenation of encoded records has
\* been fed completely, in chunks of any sizes with next_operation() drained
\* and compact() called in between, the operations returned are exactly those
\* one decoder returns when fed all the bytes in one feed() call.
C8_ChunkingIndependence ==
  (src.junk = NoJunk /\ stream = << >> /\ last.res = "None") =>
    ops = DecodeAtOnce(StreamBytes(src))

C8_Witness ==
  /\ src.junk = NoJunk /\ stream = << >> /\ last.res = "None"
  /\ Len(src.recs) = 2 /\ Len(ops) = 2
  /\ early /\ dropped > Len(Encode(src.recs[1])) /\ dropped < Fed

\* C9 as stated: after feeding any proper prefix of one record's encoding,
\* next_operation() returns None and leaves the cursor where it was.
C9_AnyPrefixYieldsNone ==
  (CleanSingle /\ stream # << >> /\ last.res # "NoCall") =>
    (last.res = "None" /\ last.end = last.start)

\* C9 (incomplete-safe decoding), amended: after feeding a prefix that lacks
\* at least two bytes of the encoding, next_operation() returns None, returns
\* no record and leaves the cursor at the start of the record; once only the
\* trailing newline is missing the record is returned; and after the
\* remaining bytes have been fed the record has been returned exactly once.
C9_IncompleteSafe ==
  (CleanSingle /\ last.res # "NoCall") =>
    /\ Len(stream) >= 2 =>
         (last.res = "None" /\ last.end = last.start /\ offset = 0 /\ ops = << >>)
    /\ Len(stream) = 1 => ops = src.recs
    /\ stream = << >> => ops = src.recs

C9_Witness ==
  /\ CleanSingle /\ stream = << >> /\ early
  /\ last.res = "Ok" /\ last.start = 0 /\ ops = src.recs

\* C10 as stated: when the byte at a record boundary is no opcode and no
\* newline, next_operation() returns Some(Err(reason)).
C10_InvalidOpcodeIsError ==
  (src.junk # NoJunk /\ last.res # "NoCall" /\ last.start = JunkPos
     /\ Fed > JunkPos) => last.res = "Err"

(***************************************************************************)
(* Properties of recovery.                                                 *)
(***************************************************************************)
RECURSIVE Concat(_)
Concat(ss) == IF ss = << >> THEN << >> ELSE Head(ss) \o Concat(Tail(ss))

\* The records a run started from, of all segments and of key k.
StartRecs == Concat(hist.start.segs)
RecsOf(k) == { StartRecs[i] : i \in { j \in 1..Len(StartRecs) : StartRecs[j].key = k } }
DistinctTimes(rs) == \A r1, r2 \in rs : r1 # r2 => r1.timestamp # r2.timestamp
Latest(rs) == CHOOSE r \in rs : \A q \in rs : q.timestamp <= r.timestamp

\* One process went from a directory without lock files through recover()
\* and sync_db_tables() and was not killed.
CleanRunDone ==
  /\ procs = { 1 } /\ pc[1] = "synced"
  /\ crashes = 0 /\ hist.start.lock = "none"

\* C2 as stated (last-write-wins): after recover() has processed all the
\* segments and sync_db_tables() has run, for every key whose records have
\* pairwise distinct timestamps, wherever they lie in the segments, kv_store
\* holds the value of the record with the greatest timestamp if that is a
\* SET and no row if it is a DELETE.
C2_LastWriteWins ==
  CleanRunDone =>
    \A k \in { KeyA, KeyB } :
      (RecsOf(k) # {} /\ DistinctTimes(RecsOf(k))) =>
        IF Latest(RecsOf(k)).kind = "Set"
        THEN k \in DOMAIN kv_store /\ kv_store[k] = Latest(RecsOf(k)).value
        ELSE k \notin DOMAIN kv_store

RECURSIVE StageAll(_, _)
\* recover() over the segments `segs` taken in this order, from the staging
\* table `table`: the staging table after the last of them.
StageAll(table, segs) ==
  IF segs = << >> THEN table
  ELSE LET r == StageOps(table, ReadLoop(EncodeAll(Head(segs)), << >>, 0))
       IN StageAll(IF r.ok THEN r.table ELSE table, Tail(segs))

\* kv_store after recover() took the segments in the order `order` and
\* sync_db_tables() ran.
FinalKv(kv, segs, order) ==
  sync_db_tables(kv, StageAll(EmptyTable,
                              [i \in 1..Len(order) |-> segs[order[i]]])).kv

Perms(n) == { f \in [1..n -> 1..n] : \A i, j \in 1..n : i # j => f[i] # f[j] }

\* C3 as stated (segment order is irrelevant), for records whose timestamps
\* are pairwise distinct per key: whatever order recover() takes the
\* segments in before the one sync_db_tables() call, kv_store ends the same:
\* it ends as the run left it.
C3_OrderIrrelevant ==
  (CleanRunDone /\ \A k \in { KeyA, KeyB } : DistinctTimes(RecsOf(k))) =>
    \A order \in Perms(Len(hist.start.segs)) :
      FinalKv(hist.start.kv, hist.start.segs, order) = kv_store

HoldsFresh(q, n) ==
  /\ pc[q] \in { "open", "commit", "rm_wal", "rm_lock" }
  /\ CurFile(q) = n
  /\ n[2] = 0
  /\ LockFileOf(n) \in DOMAIN files
  /\ files[LockFileOf(n)].owner = q
  /\ ~files[LockFileOf(n)].stale

\* C5 as stated (at-most-one recovery), in runs where no lock file has grown
\* old: while a process holds a fresh lock file that it created for a
\* segment, no step of another process reads that segment for staging,
\* deletes the segment or deletes its lock file.
C5_AtMostOneRecovery ==
  [][\A q \in procs : \A n \in DOMAIN files :
       (HoldsFresh(q, n) /\ ~hist.aged /\ pc'[q] = pc[q] /\ wals'[q] = wals[q]) =>
         /\ n \in DOMAIN files'
         /\ LockFileOf(n) \in DOMAIN files'
         /\ \A p \in procs \ { q } :
              ~(pc[p] = "open" /\ pc'[p] = "commit" /\ CurFile(p) = n)]_vars

(***************************************************************************)
(* Properties of the server.                                               *)
(***************************************************************************)
\* The process was stopped once and has come back through recover(),
\* sync_db_tables() and load_kvstore_inmemory(); when it was stopped no
\* handler was running and every record enqueued was in its segment; the
\* requests had come one at a time and their timestamps rose strictly.
RestartedAfterSerialRun ==
  /\ obs.stops = 1
  /\ pc[1] = "start_writer"
  /\ obs.atStop[1].quiet
  /\ obs.serial /\ obs.strict

\* C1 as stated (restart equivalence): after SET and DELETE calls made one at
\* a time with strictly increasing timestamps, every record flushed to a
\* segment, a stop and a restart, the in-memory map after bootstrap equals
\* the map as it was just before the stop, for every key.
C1_RestartEquivalence ==
  RestartedAfterSerialRun => cache = obs.atStop[1].cache

\* C6 (read-your-writes): once a SET(k, v) handler has returned success and
\* until a later insert or remove on k takes effect, the map holds v for k
\* and a GET(k) of any task returns v, flushed or not.
C6_ReadYourWrites ==
  /\ \A k \in DOMAIN obs.acked : k \in DOMAIN cache /\ cache[k] = obs.acked[k]
  /\ obs.lastGet.want # << >> => obs.lastGet.got = obs.lastGet.want

C6_Witness ==
  /\ obs.lastGet.want = << << 50 >> >>
  /\ obs.lastGet.got = obs.lastGet.want
  /\ chan # << >>
  /\ tasks[2].kind = "GET" /\ tasks[2].at = "reply"
  /\ \A n \in DOMAIN files : files[n].bytes = << >>

RECURSIVE RecordsIn(_)
\* The records in the pool's segments `slots`, counted.
RecordsIn(slots) ==
  IF slots = << >> THEN 0
  ELSE (IF Head(slots) \in DOMAIN files
        THEN Len(DecodeAtOnce(files[Head(slots)].bytes)) ELSE 0)
       + RecordsIn(Tail(slots))

\* The records this process has in its pool's segments, and the records it
\* has enqueued: those, the writer's buffer and the channel.
OnDisk == RecordsIn(pool)
Enqueued == OnDisk + Len(DecodeAtOnce(wbuf)) + Len(chan)

RECURSIVE RecordsOf(_)
\* The records in the pool's segments `slots`, segment after segment.
RecordsOf(slots) ==
  IF slots = << >> THEN << >>
  ELSE (IF Head(slots) \in DOMAIN files
        THEN DecodeAtOnce(files[Head(slots)].bytes) ELSE << >>)
       \o RecordsOf(Tail(slots))

\* A sequence as a multiset: how many times each element occurs.
BagOf(seq) ==
  [x \in { seq[i] : i \in 1..Len(seq) } |->
     Cardinality({ i \in 1..Len(seq) : seq[i] = x })]

\* C12 (exactly-once on disk): whenever the channel and the writer's buffer
\* are empty, the records in the segments of the pool, taken as a multiset,
\* are the records the process enqueued: none lost, none twice; for pool
\* sizes 1..wal_pool_size and up to MaxTasks concurrent handlers.
C12_ExactlyOnceOnDisk ==
  (pool # << >> /\ chan = << >> /\ wbuf = << >>) =>
    BagOf(RecordsOf(pool)) = BagOf(obs.sent)

C12_Witness ==
  /\ Len(pool) = wal_pool_size /\ chan = << >> /\ wbuf = << >>
  /\ Len(obs.sent) = MaxOps /\ ~obs.serial
  /\ obs.sent[1] = obs.sent[2]
  /\ BagOf(RecordsOf(pool)) = BagOf(obs.sent)

\* Handler t goes from `from` to `to` in this step.
Moves(t, from, to) == tasks[t].at = from /\ tasks'[t].at = to

\* The last entry of the channel is one DELETE record of key k.
EnqueuedDelete(ch, k) ==
  /\ ch # << >>
  /\ LET d == DecodeAtOnce(ch[Len(ch)])
     IN Len(d) = 1 /\ d[1].kind = "Delete" /\ d[1].key = k

C14_EnqueueFailure ==
  [][\A t \in 1..MaxTasks :
       /\ (rx = "dropped" /\ tasks'[t].at \notin { tasks[t].at, "idle" }
             /\ \/ tasks[t].kind = "SET" /\ tasks[t].at = "start"
                \/ tasks[t].kind = "DELETE" /\ tasks[t].at = "send") =>
            /\ tasks'[t].at = "reply" /\ tasks'[t].res = "ERROR"
            /\ cache' = cache /\ chan' = chan
       /\ (rx = "dropped" /\ tasks[t].kind = "DELETE" /\ Moves(t, "start", "send")) =>
            cache' = cache
       /\ (tasks[t].res = "ERROR" /\ tasks'[t] # tasks[t] /\ pc' = pc) =>
            (tasks'[t] = IdleTask /\ cache' = cache)]_vars

C14_Witness ==
  /\ rx = "dropped" /\ obs.stops = 0
  /\ cache = Put(Kv0, KeyB, << 49 >>)
  /\ \E t \in 1..MaxTasks :
       /\ tasks[t].kind = "DELETE" /\ tasks[t].key = KeyA
       /\ tasks[t].at = "reply" /\ tasks[t].res = "ERROR"

(***************************************************************************)
(* Properties of recovery over damaged segments.                           *)
(***************************************************************************)
\* The run started from a directory whose segment 1 has damage of this kind.
Damaged(kind) ==
  "damage" \in DOMAIN hist.start /\ hist.start.damage.kind = kind

\* The staging table holds, for key k, what the latest of the complete
\* records of k in the segments says, and no row without such a record.
StagedLatest(k) ==
  IF RecsOf(k) = {} THEN k \notin DOMAIN wal_sync
  ELSE /\ k \in DOMAIN wal_sync
       /\ wal_sync[k].time = Latest(RecsOf(k)).timestamp
       /\ wal_sync[k].operation =
            (IF Latest(RecsOf(k)).kind = "Set" THEN "SET" ELSE "DELETE")

\* kv_store holds, for key k, what the latest of the complete records of k
\* says, and what it held at the start without such a record.
KvLatest(k) ==
  IF RecsOf(k) = {}
    THEN (k \in DOMAIN kv_store) = (k \in DOMAIN hist.start.kv)
         /\ (k \in DOMAIN kv_store => kv_store[k] = hist.start.kv[k])
  ELSE IF Latest(RecsOf(k)).kind = "Set"
    THEN k \in DOMAIN kv_store /\ kv_store[k] = Latest(RecsOf(k)).value
  ELSE k \notin DOMAIN kv_store

\* C15 as stated (incomplete tail): from a segment of n complete records
\* followed by a proper prefix of one more record (the directory's only
\* records), recovery stages exactly the n complete records and drops the
\* tail, commits, and deletes the segment (and its lock file); after
\* sync_db_tables() kv_store holds what the complete records say.
C15_IncompleteTail ==
  (procs = { 1 } /\ crashes = 0 /\ Damaged("tail")
     /\ hist.start.segs[2] = << >>) =>
    /\ pc[1] = "sync" =>
         /\ \A k \in { KeyA, KeyB } : StagedLatest(k)
         /\ \A n \in DOMAIN files : n[1] # 1
    /\ pc[1] = "synced" => \A k \in { KeyA, KeyB } : KvLatest(k)

\* C19 as stated (decode errors are local): from a segment with a byte that
\* is no opcode at a record boundary (the directory's only records),
\* recovery skips the byte and goes on, so the records of the segment, those
\* after the byte too, are read for staging and staged; after
\* sync_db_tables() kv_store holds what the records say.
C19_DecodeErrorsLocal ==
  (procs = { 1 } /\ crashes = 0 /\ Damaged("junk")
     /\ hist.start.segs[2] = << >>) =>
    /\ (pc[1] = "commit" /\ CurFile(1) = Segment(1)) =>
         held[1] = hist.start.segs[1]
    /\ pc[1] = "sync" => \A k \in { KeyA, KeyB } : StagedLatest(k)
    /\ pc[1] = "synced" => \A k \in { KeyA, KeyB } : KvLatest(k)

(***************************************************************************)
(* Properties of recovery over a segment with a lock file.                 *)
(***************************************************************************)
\* One process, not killed, started on a segment with a lock file of this
\* kind.
LockedRun(kind) == procs = { 1 } /\ crashes = 0 /\ hist.start.lock = kind

\* The process is inside recover_file for segment 1, past the lock.
InSegment(p) ==
  pc[p] \in { "open", "commit", "rm_wal" } /\ CurFile(p) = Segment(1)

\* C16 as stated (stale lock reclamation): started on a segment whose lock
\* file is more than 10 minutes old, recovery holds a lock file of its own
\* making while it is in the segment, stages the segment's records, and has
\* deleted the segment and the lock file when recover() returns; after
\* sync_db_tables() kv_store holds what the records say.
C16_StaleLockReclaimed ==
  LockedRun("stale") =>
    /\ InSegment(1) =>
         /\ CurLock(1) \in DOMAIN files
         /\ files[CurLock(1)].owner = 1 /\ ~files[CurLock(1)].stale
    /\ pc[1] = "sync" =>
         /\ \A k \in { KeyA, KeyB } : StagedLatest(k)
         /\ files = EmptyTable
    /\ pc[1] = "synced" => \A k \in { KeyA, KeyB } : KvLatest(k)

\* C17 as stated (contended lock means hands off): started on a segment
\* whose lock file is fresh, a run of recover() never enters the segment,
\* stages nothing, and leaves the segment and the lock file, the one it
\* found, in the directory; kv_store stays what it was.
C17_ContendedLockHandsOff ==
  LockedRun("fresh") =>
    /\ ~InSegment(1)
    /\ wal_sync = EmptyTable
    /\ Segment(1) \in DOMAIN files
    /\ LockFileOf(Segment(1)) \in DOMAIN files
    /\ files[LockFileOf(Segment(1))].owner = 0
    /\ kv_store = hist.start.kv

(***************************************************************************)
(* Properties of recovery over a store that fails.                         *)
(***************************************************************************)
\* The transaction of process p over its current file fails in this step.
FailsNow(p) ==
  pc[p] = "commit" /\ CurFile(p) \in hist'.failed \ hist.failed

\* C18 as stated (store error during a segment): when a staging upsert or
\* the commit fails while a segment is recovered, the staging table is left
\* as it was before the segment, the segment file stays in the directory,
\* and recover() goes on to its next file; and when the process has been
\* started once more and has gone through recover() with no error of the
\* store's, every segment retained so has been staged and deleted.
C18_StoreErrorRetained ==
  [][/\ \A p \in procs :
          FailsNow(p) =>
            /\ wal_sync' = wal_sync
            /\ CurFile(p) \in DOMAIN files'
            /\ wals'[p] = Tail(wals[p])
            /\ pc'[p] = (IF wals'[p] = << >> THEN "sync" ELSE "meta")
     /\ (procs = { 1 } /\ crashes' = 1 /\ hist'.crashAt = "synced"
           /\ ~hist'.late /\ pc'[1] = "synced") =>
          \A n \in hist'.retained :
            n \notin DOMAIN files' /\ n \in hist'.redone \cup hist'.committed]_vars

(***************************************************************************)
(* Properties of the server killed at any moment.                          *)
(***************************************************************************)
\* The value the map holds for k was written by a SET on k or was in
\* kv_store when the server was first started.
EverWritten(k) ==
  \/ << k, cache[k] >> \in obs.wrote
  \/ k \in DOMAIN hist.start.kv /\ cache[k] = hist.start.kv[k]

\* C20 (crash at any point): the process killed at any moment of serving
\* (requests under way, records in the channel, in the writer's buffer, or
\* partly written to the segment) and started again, every value the map
\* holds, and so every value GET returns, is one a SET on that key wrote or
\* the one kv_store held at first; and when bootstrap is complete the map
\* equals kv_store.
C20_CrashAnyPoint ==
  /\ \A k \in DOMAIN cache : EverWritten(k)
  /\ (obs.stops >= 1 /\ pc[1] \in { "start_writer", "listen" }) =>
       cache = kv_store

C20_Witness ==
  /\ obs.stops = 1 /\ pc[1] = "listen"
  /\ obs.atStop[1].torn = 2 * Len(EncodeSet(1, KeyA, << 49 >>)) - 2
  /\ cache = kv_store
  /\ KeyB \in DOMAIN cache /\ cache[KeyA] = hist.start.kv[KeyA]
  /\ obs.atStop[1].cache # cache

(***************************************************************************)
(* Properties of bootstrap.                                                *)
(***************************************************************************)
\* The order of startup as specified.
StartupOrder ==
  << "migrate", "construct", "recover", "reconcile", "load_cache",
     "initialize_pool", "start_writer", "bind", "serving" >>

\* C21 (bootstrap order): startup goes through its steps in the order
\* migrate, construct the WAL, recover, reconcile, load the cache, initialize
\* the pool, start the writer, bind the listener: a process that leaves a
\* step (and has not ended) enters the step that follows it in that order.
C21_BootstrapOrder ==
  [][\A p \in procs :
       (BootStep(p) # BootStep(p)' /\ BootStep(p)' # "exited") =>
         \E i \in 1..(Len(StartupOrder) - 1) :
           BootStep(p) = StartupOrder[i] /\ BootStep(p)' = StartupOrder[i + 1]]_vars

\* C22 (bootstrap failures are fatal with a non-zero exit): a process that
\* has ended before it opened the listener has a non-zero exit status.
C22_FatalNonZeroExit ==
  \A p \in procs : Exited(p) => exit_status(p) # 0

C24_SteadyStateLeavesStore ==
  [][/\ Serving => (kv_store' = kv_store /\ wal_sync' = wal_sync)
     /\ (kv_store' # kv_store \/ wal_sync' # wal_sync) =>
          \E p \in procs : pc[p] \in { "commit", "sync" }
     /\ \A t \in 1..MaxTasks :
          (tasks[t].kind = "GET" /\ Moves(t, "start", "reply")) =>
            UNCHANGED << cache, chan, rx, wbuf, pool, clock, files, kv_store,
                         wal_sync >>]_vars

C24_Witness ==
  /\ Serving /\ obs.stops = 1
  /\ kv_store # hist.start.kv
  /\ obs.lastGet.key = KeyA /\ obs.lastGet.got = << << 49 >> >>
  /\ cache = kv_store /\ wal_sync = EmptyTable

(***************************************************************************)
(* Properties of the pool.                                                 *)
(***************************************************************************)
\* Caller c holds the guard get_writer_file() returned to it.
HasGuard(c) == callers[c].at \in { "hold", "writing", "written" }

\* The slots were tried in index order: a scan at slot i has found the slots
\* before i held; a guard got from try_write() is that of the first slot not
\* found held; the slow path is entered with every slot found held.
ScannedInOrder ==
  \A c \in 1..MaxCallers :
    /\ callers[c].at = "scan" => callers[c].failed = 1..(callers[c].i - 1)
    /\ (HasGuard(c) /\ callers[c].how = "try") =>
         callers[c].failed = 1..(callers[c].slot - 1)
    /\ (callers[c].at \in { "pick", "wait" }
          \/ (HasGuard(c) /\ callers[c].how \in { "write", "wait" })) =>
         callers[c].failed = 1..Len(pool)

\* A step of caller c's scan: a free lock is taken in that very step; a held
\* one sends the scan on, and the lock is left alone.
TryStep(c) ==
  (callers[c].at = "scan" /\ callers'[c] # callers[c]) =>
    LET i == callers[c].i
    IN IF rwlock[i].holder = 0
         THEN callers'[c].at = "hold" /\ callers'[c].slot = i
                /\ rwlock'[i].holder = c
         ELSE callers'[c].at \in { "scan", "pick" } /\ rwlock' = rwlock

\* A caller starts to wait for a slot only when the slot is held, behind
\* those that wait already; a lock that changes hands while tasks wait for
\* it goes to the one that has waited longest, which then has its guard.
WaitStep(c) ==
  /\ (callers[c].at = "pick" /\ callers'[c].at = "wait") =>
       LET s == callers'[c].slot
       IN rwlock[s].holder # 0 /\ rwlock'[s].queue = Append(rwlock[s].queue, c)
  /\ (callers[c].at = "wait" /\ callers'[c].at # "wait") =>
       LET s == callers[c].slot
       IN /\ Head(rwlock[s].queue) = c
          /\ callers[rwlock[s].holder].at = "written"
          /\ callers'[rwlock[s].holder].at = "idle"
          /\ callers'[c].at = "hold" /\ rwlock'[s].holder = c
  /\ \A s \in 1..Len(pool) :
       (rwlock[s].queue # << >> /\ Head(rwlock[s].queue) = c
          /\ rwlock'[s].holder # rwlock[s].holder) =>
         callers'[c].at = "hold" /\ rwlock'[s].holder = c

Holders(s) == { c \in 1..MaxCallers : HasGuard(c) /\ callers[c].slot = s }

\* The segment of slot s is whole buffers, followed by the first write of
\* the holder that is between its two writes.
WholeBuffers(s) ==
  LET b == files[pool[s]].bytes
      part == IF \E c \in Holders(s) : callers[c].at = "writing"
              THEN FirstWrite(BufferOf(CHOOSE c \in Holders(s) :
                                         callers[c].at = "writing"))
              ELSE << >>
  IN b = EncodeAll(DecodeAtOnce(b)) \o part

\* C26 (per-slot mutual exclusion): at most one task holds the write guard
\* of a slot, the one the lock records; every write to a segment is made by
\* the task that holds the guard of its slot; and the writes of two buffers
\* to one segment never interleave.
C26_SlotMutualExclusion ==
  /\ [](\A s \in 1..Len(pool) :
          /\ Cardinality(Holders(s)) <= 1
          /\ Holders(s) = { rwlock[s].holder } \ { 0 }
          /\ WholeBuffers(s))
  /\ [][\A s \in 1..Len(pool) :
          files'[pool[s]] # files[pool[s]] =>
            \E c \in Holders(s) :
              /\ rwlock[s].holder = c /\ rwlock'[s].holder = c
              /\ callers[c].at \in { "hold", "writing" }]_vars

C26_Witness ==
  /\ Len(pool) = 1
  /\ Len(DecodeAtOnce(files[pool[1]].bytes)) = 2
  /\ \E c \in 1..MaxCallers : callers[c].at = "writing" /\ callers[c].how = "wait"

(***************************************************************************)
(* Properties of the writer's buffer and the segments.                     *)
(***************************************************************************)
\* C27 (segment contents are whole records in queue order): while a process
\* has its pool, the writer's buffer is a run of whole encoded records, and
\* the segment it appends to, followed by the buffer and by what is still in
\* the channel, is the encoding of the records in the order they were
\* enqueued: after any number of flushes the segment is a prefix of that
\* order, record by record, none torn, none out of place.
C27_WholeRecordsInQueueOrder ==
  pool # << >> =>
    /\ wbuf = EncodeAll(DecodeAtOnce(wbuf))
    /\ files[pool[1]].bytes = EncodeAll(DecodeAtOnce(files[pool[1]].bytes))
    /\ files[pool[1]].bytes \o wbuf \o Concat(chan) = EncodeAll(obs.sent)
    /\ \A i \in 2..Len(pool) : files[pool[i]].bytes = << >>

C27_Witness ==
  /\ pool # << >> /\ Len(obs.sent) = 2 /\ ~obs.serial
  /\ obs.sent[1].key # obs.sent[2].key
  /\ files[pool[1]].bytes = Encode(obs.sent[1])
  /\ wbuf = Encode(obs.sent[2])

(***************************************************************************)
(* Properties of reconciliation.                                           *)
(***************************************************************************)
\* C28 (reconciliation effect): the step of sync_db_tables() takes kv_store
\* and wal_sync from what was committed before it to this: every key staged
\* as SET has the staged value, every key staged as DELETE has no row,
\* every other key has the row it had or none as before, wal_sync is empty;
\* a second call right after would change neither table; and kv_store
\* changes in no other step (the three statements commit together or not at
\* all).
C28_ReconciliationEffect ==
  [][/\ \A p \in procs :
          (pc[p] = "sync" /\ pc'[p] = "synced") =>
            /\ \A k \in DOMAIN wal_sync :
                 /\ wal_sync[k].operation = "SET" =>
                      k \in DOMAIN kv_store'
                        /\ << kv_store'[k] >> = wal_sync[k].value
                 /\ wal_sync[k].operation = "DELETE" =>
                      k \notin DOMAIN kv_store'
            /\ \A k \in (DOMAIN kv_store \cup DOMAIN kv_store') \ DOMAIN wal_sync :
                 k \in DOMAIN kv_store /\ k \in DOMAIN kv_store'
                   /\ kv_store'[k] = kv_store[k]
            /\ wal_sync' = EmptyTable
            /\ sync_db_tables(kv_store', wal_sync') =
                 [kv |-> kv_store', staging |-> wal_sync']
     /\ kv_store' # kv_store =>
          \E p \in procs : pc[p] = "sync" /\ pc'[p] = "synced"]_vars

C28_Witness ==
  /\ procs = { 1 } /\ pc[1] = "synced" /\ crashes = 0
  /\ wal_sync = EmptyTable
  /\ hist.start.segs = << << SetOp(3, KeyA, << 51 >>), SetOp(1, KeyB, << 49 >>) >>, << >> >>
  /\ kv_store = Put(Put(EmptyTable, KeyA, << 51 >>), KeyB, << 49 >>)

(***************************************************************************)
(* Properties of recover_file's lock file.                                 *)
(***************************************************************************)
\* recover_file, past the creation of its lock file, returns in this step.
ReturnsWithLock(p) ==
  /\ pc[p] \in { "commit", "rm_wal", "rm_lock" }
  /\ pc'[p] \in { "meta", "sync" }
  /\ wals'[p] = Tail(wals[p])

\* C29 (lock release on every exit): when recover_file() returns after it
\* created the segment's lock file, with Ok or with an error, the lock file
\* is gone; and on the way to Ok the segment is deleted before the lock
\* file.
C29_LockReleasedOnExit ==
  [][\A p \in procs :
       /\ ReturnsWithLock(p) => CurLock(p) \notin DOMAIN files'
       /\ (pc[p] = "rm_lock" /\ CurLock(p) \notin DOMAIN files') =>
            CurFile(p) \notin DOMAIN files]_vars

(***************************************************************************)
(* Properties of the writer's size trigger.                                *)
(***************************************************************************)
\* The writer takes a record that brings its buffer to 64 KiB or more.
FillsBuffer ==
  /\ lens.chan # << >> /\ lens'.chan = Tail(lens.chan)
  /\ lens.buffer + Head(lens.chan) >= 64 * 1024

\* C30: whenever the writer waits at its select!, its buffer holds fewer
\* than 64 KiB; a record taken from the channel that brings the buffer to
\* 64 KiB or more makes the writer flush at once, in one write of the whole
\* buffer with the record, and the buffer is empty afterwards.
C30_SizeTrigger ==
  /\ [](lens.buffer < 64 * 1024)
  /\ [][FillsBuffer =>
          /\ lens'.writes = Append(lens.writes,
                                   lens.buffer + Head(lens.chan))
          /\ lens'.buffer = 0]_vars

\* Two records of 32 KiB were flushed in one write of exactly 64 KiB, the
\* first having waited in the buffer.
C30_Witness ==
  /\ lens.sent = 2 /\ lens.chan = << >> /\ lens.buffer = 0
  /\ lens.writes = << 64 * 1024 >>

(***************************************************************************)
(* Properties of start_background_writer.                                  *)
(***************************************************************************)
\* Call c takes a step and is not the call that found the receiver.
LaterCallSteps(c) ==
  /\ calls'.at[c] # calls.at[c]
  /\ \/ calls.at[c] = "lock" /\ rx # "held"
     \/ calls.at[c] = "none"

\* C31: at most one writer task is ever spawned on a WAL value, however the
\* calls of start_background_writer() interleave; a call that does not find
\* the receiver spawns nothing and changes neither the receiver nor the
\* channel, the writer's buffer or what it has written.
C31_SingleConsumer ==
  /\ [](calls.writers <= 1)
  /\ [][\A c \in DOMAIN calls.at :
          LaterCallSteps(c) =>
            /\ calls'.writers = calls.writers
            /\ rx' = rx
            /\ lens' = lens]_vars

\* Every call has returned, one writer runs and has flushed a buffer after
\* the last of them.
C31_Witness ==
  /\ calls.at # << >>
  /\ \A c \in DOMAIN calls.at : calls.at[c] = "done"
  /\ calls.writers = 1
  /\ rx = "taken"
  /\ lens.writes # << >>

(***************************************************************************)
(* Properties of the map under handlers that overlap.                      *)
(***************************************************************************)
\* The records enqueued for key k that no other record enqueued for k is
\* newer than.
NewestSent(k) ==
  { i \in DOMAIN obs.sent :
      /\ obs.sent[i].key = k
      /\ \A j \in DOMAIN obs.sent :
           obs.sent[j].key = k => obs.sent[j].timestamp <= obs.sent[i].timestamp }

\* C32: once every handler has returned, the map holds for each key written
\* the last-write-wins outcome of the records enqueued for it: the value of
\* its newest SET, or nothing when its newest record is a DELETE.
C32_CacheAgreesWithLog ==
  (Serving /\ Busy = {}) =>
    \A i \in DOMAIN obs.sent :
      LET k == obs.sent[i].key
      IN \E n \in NewestSent(k) :
           IF obs.sent[n].kind = "Set"
           THEN k \in DOMAIN cache /\ cache[k] = obs.sent[n].value
           ELSE k \notin DOMAIN cache

(***************************************************************************)
(* Properties of segments recovered at a later startup.                    *)
(***************************************************************************)
\* The records of key k in the segments whose transaction has committed.
CommittedRecs(k) ==
  { r \in RecsOf(k) :
      \E n \in hist.committed :
        /\ n[2] = 0
        /\ \E i \in DOMAIN hist.start.segs[n[1]] : hist.start.segs[n[1]][i] = r }

\* The second startup has gone through recover() and sync_db_tables(), and
\* the segments the first one had to leave behind are now recovered.
LateRecovered ==
  /\ procs = { 1 } /\ pc[1] = "synced"
  /\ crashes = 1 /\ hist.crashAt = "synced"
  /\ hist.retained # {}
  /\ hist.retained \subseteq hist.committed

\* C33: when a segment skipped at one startup is recovered at a later one,
\* kv_store holds for every key what the record with the greatest timestamp
\* over all the segments recovered so far says: the value of a SET, no row
\* for a DELETE.
C33_NoRollback ==
  LateRecovered =>
    \A k \in { KeyA, KeyB } :
      (CommittedRecs(k) # {} /\ DistinctTimes(CommittedRecs(k))) =>
        IF Latest(CommittedRecs(k)).kind = "Set"
        THEN k \in DOMAIN kv_store
             /\ kv_store[k] = Latest(CommittedRecs(k)).value
        ELSE k \notin DOMAIN kv_store

(***************************************************************************)
(* Properties of what recover() takes for a segment.                       *)
(***************************************************************************)
\* Process p is inside recover_file().
InRecoverFile(p) ==
  pc[p] \in { "meta", "create", "open", "commit", "rm_wal", "rm_lock" }

\* C34: recover_file() is only ever called on a segment, never on a lock
\* file; and a lock file that leaves the directory was created by the
\* process whose step removes it, or was stale.
C34_OnlySegmentsRecovered ==
  /\ [](\A p \in procs : InRecoverFile(p) => CurFile(p)[2] = 0)
  /\ [][\A n \in DOMAIN files \ DOMAIN files' :
          n[2] > 0 =>
            \/ files[n].stale
            \/ \E p \in procs : pc'[p] # pc[p] /\ files[n].owner = p]_vars

(***************************************************************************)
(* Properties of try_acquire_walfile_lock under two processes.             *)
(***************************************************************************)
\* try_acquire_walfile_lock() has returned the lock of its current file to
\* process p, and recover_file() has not returned since.
Obtained(p) == pc[p] \in { "open", "commit", "rm_wal", "rm_lock" }

\* C35: two processes never have obtained the lock of the same file at the
\* same time, and the lock file a process removes as stale is stale, not
\* one just created by the other.
C35_LockAcquisitionAtomic ==
  /\ [](\A p, q \in procs :
          (p # q /\ Obtained(p) /\ Obtained(q)) => CurFile(p) # CurFile(q))
  /\ [][\A p \in procs :
          (pc[p] = "unstale" /\ pc'[p] = "create"
             /\ CurLock(p) \in DOMAIN files) =>
            files[CurLock(p)].stale]_vars

(***************************************************************************)
(* Properties of recovery beside a running pool.                           *)
(***************************************************************************)
\* The segments a serving process has open for append.
LiveSegments ==
  IF Serving THEN { pool[i] : i \in DOMAIN pool } ELSE {}

\* C36: no step of recover() reads a segment into staging or deletes it
\* while a serving process has the segment in its pool.
C36_NoLiveSegmentRecovered ==
  [][\A n \in LiveSegments \cap DOMAIN files :
       /\ n \in DOMAIN files'
       /\ \A p \in procs :
            ~(pc[p] = "open" /\ pc'[p] = "commit" /\ CurFile(p) = n)]_vars

(***************************************************************************)
(* Properties of the writer when a flush fails.                            *)
(***************************************************************************)
RECURSIVE SumOf(_)
SumOf(ns) == IF ns = << >> THEN 0 ELSE Head(ns) + SumOf(Tail(ns))

\* The bytes sent that are in the channel, in the writer's buffer or written
\* to a segment.
Kept == SumOf(lens.chan) + lens.buffer + SumOf(lens.writes)

\* C37: no record is discarded unwritten: what leaves the writer's buffer
\* has been written, so the bytes in the channel, in the buffer and in the
\* segments together never become fewer, whether a flush fails or not.
C37_NoRecordDiscarded ==
  [][SumOf(lens'.chan) + lens'.buffer + SumOf(lens'.writes) >= Kept]_vars

(***************************************************************************)
(* Properties of the deletion of a segment.                                *)
(***************************************************************************)
\* The staging table holds record r or a newer record of r's key.
Folded(r) ==
  r.key \in DOMAIN wal_sync /\ wal_sync[r.key].time >= r.timestamp

\* Process p removes its current file, a segment, in this step.
DeletesSegment(p) ==
  /\ pc[p] = "rm_wal" /\ CurFile(p)[2] = 0
  /\ CurFile(p) \in DOMAIN files /\ CurFile(p) \notin DOMAIN files'

\* C38: when recover_file() deletes a segment, the segment's transaction
\* has committed and every complete record of the segment, whatever other
\* bytes stand between the records, is in the staging table (or a newer
\* record of its key is).
C38_DeletionLosesNothing ==
  [][\A p \in procs :
       DeletesSegment(p) =>
         /\ CurFile(p) \in hist.committed
         /\ \A i \in DOMAIN hist.start.segs[CurFile(p)[1]] :
              Folded(hist.start.segs[CurFile(p)[1]][i])]_vars

(***************************************************************************)
(* Properties of the first start.                                          *)
(***************************************************************************)
\* C39: started with a log directory that does not exist yet, recover()
\* behaves as with a directory without segments: the process goes from
\* recover() to sync_db_tables() with nothing to recover, and it does not
\* end before it listens.
C39_FirstStartOnEmptyDeployment ==
  /\ [](NoDirectory => \A p \in procs : ~Exited(p))
  /\ [][\A p \in procs :
          (NoDirectory /\ pc[p] = "recover" /\ pc'[p] # "recover") =>
            pc'[p] = "sync" /\ wals'[p] = << >>]_vars

(***************************************************************************)
(* Properties of the pool under the one writer.                            *)
(***************************************************************************)
\* C40: with the background writer as the only caller of get_writer_file(),
\* every scan is at slot 0 and finds it free, no try_write() fails, the
\* call never comes to the random slot and never waits, every guard is the
\* one of slot 0, and the segments of the other slots stay as created, for
\* every pool size.
C40_SingleWriterSlotZero ==
  /\ \A c \in DOMAIN callers :
       /\ callers[c].at \notin { "pick", "wait" }
       /\ callers[c].failed = {}
       /\ callers[c].how \in { "", "try" }
       /\ callers[c].at = "scan" =>
            callers[c].i = 1 /\ rwlock[1].holder = 0
       /\ callers[c].at \in { "hold", "writing", "written" } =>
            callers[c].slot = 1
  /\ \A i \in 2..Len(pool) :
       files[pool[i]].bytes = << >> /\ rwlock[i] = FreeLock

\* The writer inside its second flush or a later one, in a pool of more than
\* one slot, holding the guard of slot 0 whose segment has the earlier buffer.
C40_Witness ==
  /\ Len(pool) > 1
  /\ callers[WriterTask].calls > 1
  /\ callers[WriterTask].at = "written"
  /\ callers[WriterTask].how = "try"
  /\ Len(files[pool[1]].bytes) >= 2 * Len(BufferOf(WriterTask))

====
